---------------------------- MODULE Spec2Model ----------------------------
(***************************************************************************)
(* A model of the agent orchestration engine of nexus_copilot_fastapi:     *)
(* the robust model invoker (app/agents/context.py), the step ledger, the  *)
(* task runner (app/agents/runner.py), the mode state machines             *)
(* (app/agents/modes) and the stop endpoint (app/api/v1/endpoints).        *)
(*                                                                         *)
(* Texts are sequences of tokens.  The tokens are                          *)
(*   "{" "}" "[" "]" ":" ","   JSON punctuation                            *)
(*   "a" "b"                   two JSON string literals                    *)
(*   "1"                       a JSON number literal                       *)
(*   "z"                       the JSON literal null                       *)
(*   "w"                       a word of prose (no JSON token)             *)
(*   "_"                       white space                                 *)
(*   "F"                       the fence opener  ```json                   *)
(*   "E"                       the fence closer  ```                       *)
(*   "T"                       the reasoning marker  </think>              *)
(*   "t"                       a JSON string literal whose text contains   *)
(*                             the reasoning marker:  "</think>"           *)
(*   "q"                       what is left of "t" after the marker: a     *)
(*                             lone double quote                           *)
(*   "U"                       a lone surrogate code point                 *)
(*   "?"                       the replacement character of a lossy encode *)
(***************************************************************************)
EXTENDS Integers, Sequences, FiniteSets, TLC

VARIABLES
    \* ---- one invocation of _call_llm_with_retry ----
    inv_pc,            \* "loop" | "returned" | "raised"
    max_retries,       \* the max_retries argument
    attempt,           \* the loop variable of `for attempt in range(max_retries)`
    gateway_log,       \* the responses of the gateway calls made so far
    inv_result,        \* what the invocation ended with
    \* ---- the task row of agent_tasks and the rows of agent_task_steps ----
    db_status,         \* "none" before the row exists
    db_mode,
    db_plan,
    db_final_report,
    db_research_content,
    steps,             \* the step rows in insertion order
    \* ---- the run of run_task_background / _execute_task ----
    pc,                \* where the run is; "idle" when no run is active
    is_resume,
    has_payload,       \* a resume_payload was supplied
    run_error,         \* the exception the mode raised ("" when none)
    context,           \* the TaskContext of the run
    loc,               \* the locals of the running mode
    \* ---- history ----
    runs,              \* runs started for the task so far
    stop_signal,       \* stop_task marked the running task failed in this run
    elaborated,        \* the elaboration phase 1 of write mode produced
    \* ---- one call of a function of the engine, taken by itself ----
    fn_pc,             \* "ready" | "done"
    fn_in,             \* the arguments
    fn_out             \* the result

inv_vars == <<inv_pc, max_retries, attempt, gateway_log, inv_result>>
db_vars == <<db_status, db_mode, db_plan, db_final_report, db_research_content, steps>>
run_vars == <<pc, is_resume, has_payload, run_error, context, loc>>
hist_vars == <<runs, stop_signal, elaborated>>
engine_vars == <<db_vars, run_vars, hist_vars>>
fn_vars == <<fn_pc, fn_in, fn_out>>
vars == <<inv_vars, engine_vars, fn_vars>>

(***************************************************************************)
(* JSON values.  Every node is a record [t, k, v] so that any two values   *)
(* can be compared: t is the type, k the literal (or the key of a pair),   *)
(* v the sequence of children.                                             *)
(***************************************************************************)
JStr(s) == [t |-> "str", k |-> s, v |-> <<>>]
JNum == [t |-> "num", k |-> "1", v |-> <<>>]
JNull == [t |-> "null", k |-> "", v |-> <<>>]
JArr(items) == [t |-> "arr", k |-> "", v |-> items]
JPair(key, val) == [t |-> "pair", k |-> key, v |-> <<val>>]
JObj(pairs) == [t |-> "obj", k |-> "", v |-> pairs]

WS == {"_"}
StringTokens == {"a", "b"}

\* The members of a dict keep one entry per key (the last one wins) and
\* dict equality ignores order: the pairs are kept sorted by key.
PutMember(pairs, key, val) ==
    LET others == SelectSeq(pairs, LAMBDA p : p.k # key)
        before == SelectSeq(others, LAMBDA p : p.k = "a")
        after  == SelectSeq(others, LAMBDA p : p.k = "b")
    IN  IF key = "a" THEN <<JPair(key, val)>> \o after
                     ELSE before \o <<JPair(key, val)>>

RECURSIVE SkipWs(_, _)
SkipWs(toks, i) ==
    IF i <= Len(toks) /\ toks[i] \in WS THEN SkipWs(toks, i + 1) ELSE i

ParseFail == [ok |-> FALSE, val |-> JNull, next |-> 0]
ParseOk(val, next) == [ok |-> TRUE, val |-> val, next |-> next]

RECURSIVE ParseValue(_, _)
RECURSIVE ParseMembers(_, _, _, _)
RECURSIVE ParseElements(_, _, _, _)

\* json's scanner: one value starting at position i (white space skipped).
ParseValue(toks, i) ==
    LET j == SkipWs(toks, i) IN
    IF j > Len(toks) THEN ParseFail
    ELSE IF toks[j] \in StringTokens THEN ParseOk(JStr(toks[j]), j + 1)
    ELSE IF toks[j] = "1" THEN ParseOk(JNum, j + 1)
    ELSE IF toks[j] = "z" THEN ParseOk(JNull, j + 1)
    ELSE IF toks[j] = "{" THEN ParseMembers(toks, j + 1, <<>>, TRUE)
    ELSE IF toks[j] = "[" THEN ParseElements(toks, j + 1, <<>>, TRUE)
    ELSE ParseFail

\* The members of an object after its "{"; first is TRUE when "}" may follow.
ParseMembers(toks, i, acc, first) ==
    LET j == SkipWs(toks, i) IN
    IF j > Len(toks) THEN ParseFail
    ELSE IF first /\ toks[j] = "}" THEN ParseOk(JObj(acc), j + 1)
    ELSE IF toks[j] \notin StringTokens THEN ParseFail
    ELSE LET c == SkipWs(toks, j + 1) IN
         IF c > Len(toks) \/ toks[c] # ":" THEN ParseFail
         ELSE LET r == ParseValue(toks, c + 1) IN
              IF ~r.ok THEN ParseFail
              ELSE LET e == SkipWs(toks, r.next)
                       acc2 == PutMember(acc, toks[j], r.val)
                   IN  IF e > Len(toks) THEN ParseFail
                       ELSE IF toks[e] = "}" THEN ParseOk(JObj(acc2), e + 1)
                       ELSE IF toks[e] = "," THEN ParseMembers(toks, e + 1, acc2, FALSE)
                       ELSE ParseFail

\* The elements of an array after its "[".
ParseElements(toks, i, acc, first) ==
    LET j == SkipWs(toks, i) IN
    IF j > Len(toks) THEN ParseFail
    ELSE IF first /\ toks[j] = "]" THEN ParseOk(JArr(acc), j + 1)
    ELSE LET r == ParseValue(toks, j) IN
         IF ~r.ok THEN ParseFail
         ELSE LET e == SkipWs(toks, r.next)
                  acc2 == Append(acc, r.val)
              IN  IF e > Len(toks) THEN ParseFail
                  ELSE IF toks[e] = "]" THEN ParseOk(JArr(acc2), e + 1)
                  ELSE IF toks[e] = "," THEN ParseElements(toks, e + 1, acc2, FALSE)
                  ELSE ParseFail

\* json.loads: one value and nothing but white space after it.
json_loads(toks) ==
    LET r == ParseValue(toks, 1) IN
    IF r.ok /\ SkipWs(toks, r.next) = Len(toks) + 1
    THEN [ok |-> TRUE, val |-> r.val]
    ELSE [ok |-> FALSE, val |-> JNull]

\* s.encode('utf-8', 'replace').decode('utf-8'): a lone surrogate becomes "?".
clean_unicode_string(s) ==
    [i \in 1..Len(s) |-> IF s[i] = "U" THEN "?" ELSE s[i]]

\* s.split("</think>")[-1] when the marker is present: the text after its
\* last occurrence, be it the marker alone or inside a string literal.
AfterLastThink(s) ==
    LET marks == {i \in 1..Len(s) : s[i] \in {"T", "t"}} IN
    IF marks = {} THEN s
    ELSE LET last == CHOOSE i \in marks : \A j \in marks : j <= i
             rest == SubSeq(s, last + 1, Len(s))
         IN  IF s[last] = "t" THEN <<"q">> \o rest ELSE rest

\* The first alternative of the pattern at position p:
\*   ```json \s* ( \{ .*? \} ) \s* ```
\* the group runs from the brace to the first "}" that white space and a
\* fence follow.  An opening fence starts with the closing fence's text.
FencedEnds(s, p) ==
    LET q == SkipWs(s, p + 1) IN
    IF s[p] = "F" /\ q <= Len(s) /\ s[q] = "{"
    THEN {r \in (q + 1)..Len(s) :
            /\ s[r] = "}"
            /\ SkipWs(s, r + 1) <= Len(s)
            /\ s[SkipWs(s, r + 1)] \in {"E", "F"}}
    ELSE {}

\* The second alternative at position p:  ( \{ .*? \} )
BraceEnds(s, p) ==
    IF s[p] = "{" THEN {r \in (p + 1)..Len(s) : s[r] = "}"} ELSE {}

Min(S) == CHOOSE x \in S : \A y \in S : x <= y
Max(S) == CHOOSE x \in S : \A y \in S : x >= y

\* re.search(r'```json\s*(\{.*?\})\s*```|(\{.*?\})', s, re.DOTALL): the
\* leftmost position where an alternative matches, and its group.
re_search(s) ==
    LET starts == {p \in 1..Len(s) : FencedEnds(s, p) # {} \/ BraceEnds(s, p) # {}} IN
    IF starts = {} THEN [found |-> FALSE, group |-> <<>>]
    ELSE LET p == Min(starts) IN
         IF FencedEnds(s, p) # {}
         THEN [found |-> TRUE,
               group |-> SubSeq(s, SkipWs(s, p + 1), Min(FencedEnds(s, p)))]
         ELSE [found |-> TRUE, group |-> SubSeq(s, p, Min(BraceEnds(s, p)))]

\* s[s.find('{') : s.rfind('}') + 1], when both braces occur.
BraceSpan(s) ==
    LET opens  == {i \in 1..Len(s) : s[i] = "{"}
        closes == {i \in 1..Len(s) : s[i] = "}"}
    IN  IF opens # {} /\ closes # {}
        THEN [found |-> TRUE, text |-> SubSeq(s, Min(opens), Max(closes))]
        ELSE [found |-> FALSE, text |-> <<>>]

Returned(val) == [tag |-> "return", exc |-> "", val |-> val]
Raised(exc) == [tag |-> "raise", exc |-> exc, val |-> JNull]

\* The three extraction stages applied to a response text (context.py
\* lines 162-189): direct parse, pattern match, first-to-last brace.
ExtractJson(content) ==
    LET cleaned == AfterLastThink(clean_unicode_string(content))
        direct  == json_loads(cleaned)
        m       == re_search(cleaned)
        viaRe   == json_loads(m.group)
        span    == BraceSpan(cleaned)
        viaSpan == json_loads(span.text)
    IN  IF direct.ok THEN Returned(direct.val)
        ELSE IF m.found /\ viaRe.ok THEN Returned(viaRe.val)
        ELSE IF span.found /\ viaSpan.ok THEN Returned(viaSpan.val)
        ELSE Raised("JSONDecodeError")


(***************************************************************************)
(* The Model Gateway (shared_services.get_completion) as the invoker sees  *)
(* it: a message with text content, a message without content, a message   *)
(* whose content is no text, a value that is no dict, or an exception.     *)
(***************************************************************************)
Message(content) == [kind |-> "message", exc |-> "", content |-> content]
NotDict == [kind |-> "not_dict", exc |-> "", content |-> <<>>]
NoContent == [kind |-> "no_content", exc |-> "", content |-> <<>>]
NonText == [kind |-> "non_text", exc |-> "", content |-> <<>>]
GatewayRaises(exc) == [kind |-> "raise", exc |-> exc, content |-> <<>>]

\* httpx.TimeoutException and httpx.HTTPStatusError derive from Exception
\* alone; response.json() raises json.JSONDecodeError on a body that is no
\* JSON.
GatewayExceptions == {"TimeoutException", "HTTPStatusError", "JSONDecodeError"}

\* except (json.JSONDecodeError, ValueError, TypeError)
Recoverable == {"JSONDecodeError", "ValueError", "TypeError"}

ObjA == <<"{", "a", ":", "1", "}">>
ObjB == <<"{", "b", ":", "1", "}">>
ObjNested == <<"{", "a", ":", "{", "b", ":", "1", "}", "}">>

ResponseTexts ==
    { ObjA,                                    \* a bare object
      <<"F", "_">> \o ObjA \o <<"_", "E">>,    \* a fenced object
      <<"w", "_">> \o ObjA \o <<"_", "w">>,    \* an object inside prose
      <<"w", "_">> \o ObjNested,               \* a nested object after prose
      <<"w">> \o ObjB \o <<"T">> \o ObjA,      \* reasoning, marker, answer
      <<"[", "1", "]">>,                       \* a JSON array
      <<"z">>,                                 \* null
      <<"a">>,                                 \* a JSON string
      <<"w", "_", "w">>,                       \* prose only
      <<"{", "a", ":", "U", "}">>,             \* a lone surrogate, no JSON
      <<"w", "}", "_", "{", "w">> }            \* braces in the wrong order

Responses ==
    {Message(c) : c \in ResponseTexts}
        \cup {NotDict, NoContent, NonText}
        \cup {GatewayRaises(e) : e \in GatewayExceptions}

\* One pass through the body of the retry loop (context.py lines 151-189),
\* given what the gateway call produced: the value returned or the
\* exception raised inside the try block.
AttemptOutcome(resp) ==
    IF resp.kind = "raise" THEN Raised(resp.exc)
    ELSE IF resp.kind = "not_dict" THEN Raised("TypeError")
    ELSE IF resp.kind = "no_content" THEN Raised("ValueError")
    ELSE IF resp.kind = "non_text" THEN Raised("AttributeError")
    ELSE ExtractJson(resp.content)

DefaultMaxRetries == 3

NoResult == [tag |-> "none", exc |-> "", val |-> JNull]
TerminalError == Raised("ValueError: LLM failed to return valid JSON")
LoopEndError == Raised("ValueError: LLM call failed after multiple retries")

\* Mutant: the terminal error is raised one attempt early.
AfterAttempt_GivesUpEarly(out, att, maxr) ==
    IF out.tag = "return" THEN out
    ELSE IF out.exc \in Recoverable
         THEN IF att + 2 >= maxr THEN TerminalError ELSE [NoResult EXCEPT !.tag = "retry"]
         ELSE out

\* Mutant: every exception is caught by the retrying clause.
AfterAttempt_RetriesAll(out, att, maxr) ==
    IF out.tag = "return" THEN out
    ELSE IF att + 1 = maxr THEN TerminalError ELSE [NoResult EXCEPT !.tag = "retry"]

\* Mutant: a gateway timeout is caught by the retrying clause.
AfterAttempt_RetriesTimeout(out, att, maxr) ==
    IF out.tag = "return" THEN out
    ELSE IF out.exc \in Recoverable \cup {"TimeoutException"}
         THEN IF att + 1 = maxr THEN TerminalError ELSE [NoResult EXCEPT !.tag = "retry"]
         ELSE out

\* What the except clauses make of an attempt's outcome (lines 190-196):
\* "retry" stands for falling through to the next iteration.
AfterAttempt(out, att, maxr) ==
    IF out.tag = "return" THEN out
    ELSE IF out.exc \in Recoverable
         THEN IF att + 1 = maxr THEN TerminalError ELSE [NoResult EXCEPT !.tag = "retry"]
         ELSE out

InvStart ==
    /\ inv_pc = "loop"
    /\ max_retries \in 0..DefaultMaxRetries
    /\ attempt = 0
    /\ gateway_log = <<>>
    /\ inv_result = NoResult

\* One iteration of `for attempt in range(max_retries)`: one gateway call.
LlmAttempt ==
    /\ inv_pc = "loop"
    /\ attempt < max_retries
    /\ \E resp \in Responses :
        LET res == AfterAttempt(AttemptOutcome(resp), attempt, max_retries) IN
        /\ gateway_log' = Append(gateway_log, resp)
        /\ IF res.tag = "retry"
           THEN /\ attempt' = attempt + 1
                /\ UNCHANGED <<inv_pc, inv_result>>
           ELSE /\ inv_pc' = IF res.tag = "return" THEN "returned" ELSE "raised"
                /\ inv_result' = res
                /\ UNCHANGED attempt
    /\ UNCHANGED <<max_retries, engine_vars, fn_vars>>

\* The statement after the loop (line 197), reached when the range is empty.
LlmLoopEnd ==
    /\ inv_pc = "loop"
    /\ attempt >= max_retries
    /\ inv_pc' = "raised"
    /\ inv_result' = LoopEndError
    /\ UNCHANGED <<max_retries, attempt, gateway_log, engine_vars, fn_vars>>


(***************************************************************************)
(* The engine: one task, its rows in the store, and the run of the task    *)
(* runner on it.  A model call of a mode is one step: it returns a value   *)
(* or raises (the terminal error of the invoker, a fatal gateway           *)
(* exception, or an exception of the code that reads the returned value).  *)
(***************************************************************************)
MaxRuns == 2
\* Runs of one write task: the fresh one and the resumes with a payload.
MaxResumes == 3
MaxPlanLen == 2
ExploreMaxSteps == 10

Modes == {"plan", "explore", "write", "debate"}
KbSelections == {"none", "internet_search"}
LlmOutcomes == {"return", "raise"}

\* ---- values of the plan column ----
NoPlan ==
    [kind |-> "none", nodes |-> <<>>, personas |-> FALSE, max_rounds |-> 0,
     threshold |-> 0, rounds |-> <<>>, verdict |-> FALSE]
ListPlan(nodes) == [NoPlan EXCEPT !.kind = "list", !.nodes = nodes]
Node(id, parent, sub_goal, leaf, status) ==
    [id |-> id, parent |-> parent, sub_goal |-> sub_goal, leaf |-> leaf, status |-> status]
SubGoal(g) == Node("", "", g, TRUE, "")

RECURSIVE SeqsUpTo(_, _)
SeqsUpTo(S, n) ==
    IF n = 0 THEN {<<>>}
    ELSE LET shorter == SeqsUpTo(S, n - 1) IN
         shorter \cup {Append(q, x) : q \in {r \in shorter : Len(r) = n - 1}, x \in S}

\* What the planner may return as "plan": lists of sub-goals, the last of
\* which may be finish_task.
PlannerPlans ==
    {ListPlan(q) : q \in SeqsUpTo({SubGoal("g")}, MaxPlanLen)}
        \cup {ListPlan(Append(q, SubGoal("finish_task"))) :
                    q \in SeqsUpTo({SubGoal("g")}, MaxPlanLen - 1)}

\* ---- values of the final_report column ----
Frag(t, id, i) == [t |-> t, id |-> id, i |-> i]
Report(kind, body) == [kind |-> kind, body |-> body]
NoReport == Report("none", <<>>)
StoppedReport == Report("Task manually stopped by user.", <<>>)
ErrorReport(e) == Report("Task failed during execution", <<Frag(e, "", 0)>>)
ProgressiveReport(results) == Report("progressive", results)

\* ---- rows of agent_task_steps ----
StepRow(idx, action, node, status, result) ==
    [step_index |-> idx, action |-> action, node |-> node, status |-> status, result |-> result]

\* TaskContext.__init__
NewContext(kb) ==
    [plan |-> ListPlan(<<>>), elaboration |-> "", step_results |-> <<>>,
     is_finished |-> FALSE, research_content |-> {}, kb |-> kb,
     action_history |-> [n |-> 0, last_success |-> TRUE, retrieve_failed |-> FALSE],
     step_outputs |-> [last_sentinel |-> FALSE]]

NoLoc ==
    [i |-> 0, row |-> 0, consecutive_failures |-> 0, final_report |-> NoReport,
     leaf |-> 0, iter |-> 0, history |-> <<>>, debate_state |-> NoPlan]

\* _check_if_task_stopped: the status has left running and planning.
check_if_task_stopped == db_status \notin {"running", "planning"}

\* An exception leaves the mode: _execute_task's except clause records it.
Fail(e) ==
    /\ pc' = "finalize"
    /\ run_error' = e

\* ---- the dispatcher, as far as a step's outcome depends on it ----
TOOL_DISPATCHER == {"retrieve_knowledge", "reasoning_step", "finish_task"}
ToolParams(tool) ==
    CASE tool = "retrieve_knowledge" -> {"query", "api_config", "context"}
      [] tool = "reasoning_step" -> {"thought"}
      [] tool = "finish_task" -> {"context", "conclusion"}
Injected == {"api_config", "context"}

\* _dispatch_tool_call: "raise" or "invoked".  action_input is
\* [is_dict, keys]: whether it is a dict and the names it holds.
dispatch_tool_call(action, action_input) ==
    IF action \notin TOOL_DISPATCHER THEN "raise"
    ELSE IF ~action_input.is_dict THEN "raise"
    ELSE LET filtered == action_input.keys \cap ToolParams(action)
             call_kwargs == filtered \cup (Injected \cap ToolParams(action))
         IN  IF ToolParams(action) \subseteq call_kwargs THEN "invoked" ELSE "raise"

Input(keys) == [is_dict |-> TRUE, keys |-> keys]
Decision(action, action_input) == [action |-> action, action_input |-> action_input]

\* The decisions an executor or explorer model call may return.
Decisions ==
    { Decision("none", Input({})),
      Decision("reasoning_step", Input({"thought"})),
      Decision("retrieve_knowledge", Input({"query", "top_k"})),
      Decision("finish_task", Input({})),
      Decision("search_web", Input({"query"})),
      Decision("reasoning_step", [is_dict |-> FALSE, keys |-> {}]) }

\* `if action and action != "none"`: a tool is dispatched.
Dispatches(d) == d.action # "none"

(***************************************************************************)
(* start_task and the non-resume branch of run_task_background.            *)
(***************************************************************************)
FirstPc(m) ==
    CASE m = "plan" -> "plan_generate"
      [] m = "explore" -> "explore_step"
      [] m = "write" -> "write_elaborate"
      [] m = "debate" -> "debate_setup"

StartTask ==
    /\ db_status = "none"
    /\ pc = "idle"
    /\ \E m \in Modes, kb \in KbSelections :
        /\ db_mode' = m
        /\ context' = NewContext(kb)
        /\ pc' = FirstPc(m)
    /\ db_status' = "planning"
    /\ is_resume' = FALSE
    /\ has_payload' = FALSE
    /\ run_error' = ""
    /\ loc' = [NoLoc EXCEPT !.i = 1]
    /\ runs' = 1
    /\ stop_signal' = FALSE
    /\ UNCHANGED <<db_plan, db_final_report, db_research_content, steps, elaborated, inv_vars, fn_vars>>

(***************************************************************************)
(* Plan-Execute mode (plan_explore_mode.py).                               *)
(***************************************************************************)
\* _generate_and_save_plan: one model call; the plan is validated, kept in
\* the context and written to the task row.
PlanGenerate ==
    /\ pc = "plan_generate"
    /\ \E out \in LlmOutcomes :
        \/ /\ out = "raise"
           /\ Fail("llm")
           /\ UNCHANGED <<context, db_plan, loc>>
        \/ /\ out = "return"
           /\ \E plan \in PlannerPlans \cup {NoPlan} :
                IF plan.kind # "list"
                THEN /\ Fail("Planner LLM did not return a valid plan structure.")
                     /\ UNCHANGED <<context, db_plan, loc>>
                ELSE /\ context' = [context EXCEPT !.plan = plan]
                     /\ db_plan' = plan
                     /\ loc' = [loc EXCEPT !.i = 1]
                     /\ pc' = "plan_step"
                     /\ UNCHANGED run_error
    /\ UNCHANGED <<db_status, db_mode, db_final_report, db_research_content, steps,
                   is_resume, has_payload, hist_vars, inv_vars, fn_vars>>

\* The head of run_plan_mode's loop and the first statements of
\* _execute_plan_step: the stop check, then the INSERT of the running row
\* with step_index = i + 1 of the enumeration.
PlanStepBegin ==
    /\ pc = "plan_step"
    /\ IF loc.i > Len(context.plan.nodes)
       THEN /\ pc' = "check_paused"
            /\ UNCHANGED <<run_error, steps, loc>>
       ELSE IF check_if_task_stopped
       THEN /\ Fail("Task stopped by user.")
            /\ UNCHANGED <<steps, loc>>
       ELSE /\ steps' = Append(steps, StepRow(loc.i, "Planning...", "", "running", 0))
            /\ loc' = [loc EXCEPT !.row = Len(steps) + 1]
            /\ pc' = "plan_exec"
            /\ UNCHANGED run_error
    /\ UNCHANGED <<db_status, db_mode, db_plan, db_final_report, db_research_content,
                   is_resume, has_payload, context, hist_vars, inv_vars, fn_vars>>

\* The rest of _execute_plan_step: the finish_task shortcut, or the model
\* call, the tool dispatch, the progressive report and the UPDATE of the row.
PlanStepFinish ==
    /\ pc = "plan_exec"
    /\ IF context.plan.nodes[loc.i].sub_goal = "finish_task"
       THEN /\ steps' = [steps EXCEPT ![loc.row] =
                            StepRow(@.step_index, "finish_task", "", "completed", loc.i)]
            /\ loc' = [loc EXCEPT !.i = @ + 1]
            /\ pc' = "plan_step"
            /\ UNCHANGED <<run_error, context, db_final_report>>
       ELSE \E out \in LlmOutcomes :
            \/ /\ out = "raise"
               /\ Fail("llm")
               /\ UNCHANGED <<steps, loc, context, db_final_report>>
            \/ /\ out = "return"
               /\ \E d \in Decisions :
                    LET results == Append(context.step_results, Frag("result", "", loc.i)) IN
                    /\ context' = [context EXCEPT !.step_results = results]
                    /\ IF Dispatches(d) /\ dispatch_tool_call(d.action, d.action_input) = "raise"
                       THEN /\ Fail("tool")
                            /\ UNCHANGED <<steps, loc, db_final_report>>
                       ELSE /\ db_final_report' = ProgressiveReport(results)
                            /\ steps' = [steps EXCEPT ![loc.row] =
                                    StepRow(@.step_index, "decision.action", "", "completed", loc.i)]
                            /\ loc' = [loc EXCEPT !.i = @ + 1]
                            /\ pc' = "plan_step"
                            /\ UNCHANGED run_error
    /\ UNCHANGED <<db_status, db_mode, db_plan, db_research_content,
                   is_resume, has_payload, hist_vars, inv_vars, fn_vars>>

(***************************************************************************)
(* Explore mode (plan_explore_mode.py).  Of action_history the model keeps *)
(* what the code reads of it: its length, the success of its last entry    *)
(* and whether some retrieve_knowledge entry failed; of step_outputs,      *)
(* whether the last observation contains the sentinel.                     *)
(***************************************************************************)
\* The head of run_explore_mode's loop (for i in range(1, 11)) and the
\* INSERT of the running row with step_index = i.
ExploreStepBegin ==
    /\ pc = "explore_step"
    /\ IF loc.i > ExploreMaxSteps
       THEN /\ pc' = "check_paused"
            /\ UNCHANGED <<run_error, steps, loc>>
       ELSE IF check_if_task_stopped
       THEN /\ Fail("Task stopped by user.")
            /\ UNCHANGED <<steps, loc>>
       ELSE /\ steps' = Append(steps, StepRow(loc.i, "Thinking...", "", "running", 0))
            /\ loc' = [loc EXCEPT !.row = Len(steps) + 1]
            /\ pc' = "explore_exec"
            /\ UNCHANGED run_error
    /\ UNCHANGED <<db_status, db_mode, db_plan, db_final_report, db_research_content,
                   is_resume, has_payload, context, hist_vars, inv_vars, fn_vars>>

has_retrieval_tool == context.kb # "none"

\* Mutant: the Act phase always takes the model's decision.
ActDecisions_AlwaysModel == Decisions

\* The decisions of the Act phase: the model's when a retrieval source is
\* configured, else the synthesized reasoning_step.
ActDecisions ==
    IF has_retrieval_tool THEN Decisions
    ELSE {Decision("reasoning_step", Input({"thought"}))}

\* Mutant: the sentinel in the observation is not looked at.
action_succeeded_Always(dispatched, sentinel) == TRUE

\* action_succeeded of _execute_explore_step (lines 122-127): false when a
\* tool was dispatched and its observation contains the sentinel.
action_succeeded(dispatched, sentinel) == ~(dispatched /\ sentinel)

\* Mutant: the critique's verdict is looked at before the failure count.
ExploreExit_FinishedFirst(failures, is_finished) ==
    IF is_finished THEN "break"
    ELSE IF failures >= 2 THEN "stuck"
    ELSE "continue"

\* Mutant: the run gives up at the third failure in a row.
ExploreExit_ThreeFailures(failures, is_finished) ==
    IF failures >= 3 THEN "stuck"
    ELSE IF is_finished THEN "break"
    ELSE "continue"

\* The end of run_explore_mode's loop body (lines 202-207).
ExploreExit(failures, is_finished) ==
    IF failures >= 2 THEN "stuck"
    ELSE IF is_finished THEN "break"
    ELSE "continue"

\* Act, dispatch, Reflect, Critique and the writes of _execute_explore_step,
\* then the failure count and the exits of run_explore_mode's loop body.
\* sentinel: the observation contains "No knowledge source selected".
ExploreStepFinish ==
    /\ pc = "explore_exec"
    /\ \E act \in LlmOutcomes, d \in ActDecisions, sentinel \in BOOLEAN,
          reflect \in LlmOutcomes, critique \in LlmOutcomes, is_finished \in BOOLEAN :
        LET dispatched == Dispatches(d)
            succeeded  == action_succeeded(dispatched, sentinel)
            history    == [n |-> context.action_history.n + 1,
                           last_success |-> succeeded,
                           retrieve_failed |-> \/ context.action_history.retrieve_failed
                                               \/ (d.action = "retrieve_knowledge" /\ ~succeeded)]
            outputs    == [last_sentinel |-> dispatched /\ sentinel]
            reflected  == Append(context.step_results, Frag("result", "", loc.i))
            results    == IF is_finished THEN reflected
                          ELSE Append(reflected, Frag("critique", "", loc.i))
            failures   == IF ~succeeded THEN loc.consecutive_failures + 1 ELSE 0
        IN
        IF act = "raise" \/ (dispatched /\ dispatch_tool_call(d.action, d.action_input) = "raise")
        THEN /\ Fail(IF act = "raise" THEN "llm" ELSE "tool")
             /\ UNCHANGED <<context, steps, loc, db_final_report>>
        ELSE IF reflect = "raise"
        THEN /\ Fail("llm")
             /\ context' = [context EXCEPT !.action_history = history,
                                           !.step_outputs = outputs]
             /\ UNCHANGED <<steps, loc, db_final_report>>
        ELSE IF critique = "raise"
        THEN /\ Fail("llm")
             /\ context' = [context EXCEPT !.action_history = history,
                                           !.step_outputs = outputs,
                                           !.step_results = reflected]
             /\ UNCHANGED <<steps, loc, db_final_report>>
        ELSE /\ context' = [context EXCEPT !.action_history = history,
                                           !.step_outputs = outputs,
                                           !.step_results = results,
                                           !.is_finished = is_finished]
             /\ db_final_report' = ProgressiveReport(results)
             /\ steps' = [steps EXCEPT ![loc.row] =
                            StepRow(@.step_index, "decision.action", "", "completed", loc.i)]
             /\ IF ExploreExit(failures, is_finished) = "stuck"
                THEN /\ Fail("Agent is stuck trying the same failing action repeatedly.")
                     /\ loc' = [loc EXCEPT !.consecutive_failures = failures]
                ELSE /\ loc' = [loc EXCEPT !.consecutive_failures = failures, !.i = @ + 1]
                     /\ pc' = IF ExploreExit(failures, is_finished) = "break"
                              THEN "check_paused" ELSE "explore_step"
                     /\ UNCHANGED run_error
    /\ UNCHANGED <<db_status, db_mode, db_plan, db_research_content,
                   is_resume, has_payload, hist_vars, inv_vars, fn_vars>>

(***************************************************************************)
(* Write / research mode (write_mode.py).  An outline is kept as the list  *)
(* of its nodes in depth-first document order; a node names its parent and *)
(* says whether it is a leaf (has no `steps`).                             *)
(***************************************************************************)
MAX_REFINE_ITERATIONS == 10

Elaborations == {"elaboration-1"}
\* An elaboration that lacks one of summary, style, strategy; "" is {}.
IncompleteElaborations == {"", "elaboration-without-summary"}

OutlineFlat ==
    <<Node("1", "", "t", TRUE, "pending"), Node("2", "", "t", TRUE, "pending")>>
OutlineTree ==
    <<Node("1", "", "t", FALSE, "pending"), Node("1.1", "1", "t", TRUE, "pending"),
      Node("2", "", "t", TRUE, "pending")>>
\* What add_metadata_to_outline leaves in context.plan.
Outlines == {ListPlan(<<>>), ListPlan(OutlineFlat), ListPlan(OutlineTree)}

Content(id, text) == [id |-> id, current |-> text, history |-> <<>>]

RECURSIVE Depth(_, _)
Depth(nodes, id) ==
    LET n == CHOOSE x \in {nodes[k] : k \in 1..Len(nodes)} : x.id = id IN
    IF n.parent = "" THEN 0 ELSE 1 + Depth(nodes, n.parent)

MissingContent == "*Content for this section is missing.*"

\* Mutant: a leaf without an entry gets its heading only.
LeafContent_NoPlaceholder(n, rc) ==
    IF \E c \in rc : c.id = n.id
    THEN <<Frag((CHOOSE c \in rc : c.id = n.id).current, n.id, 0)>>
    ELSE <<>>

\* research_content.get(id, {}).get('current', placeholder), lines 252-254.
LeafContent(n, rc) ==
    IF \E c \in rc : c.id = n.id
    THEN <<Frag((CHOOSE c \in rc : c.id = n.id).current, n.id, 0)>>
    ELSE <<Frag(MissingContent, n.id, 0)>>

\* _assemble_final_report: a heading per node, and for a leaf its current
\* content or the missing-content placeholder.
RECURSIVE AssembleNodes(_, _, _)
AssembleNodes(nodes, rc, k) ==
    IF k > Len(nodes) THEN <<>>
    ELSE LET n == nodes[k]
             heading == Frag("heading", n.id, 2 + Depth(nodes, n.id))
             body == IF ~n.leaf THEN <<>> ELSE LeafContent(n, rc)
         IN  <<heading>> \o body \o AssembleNodes(nodes, rc, k + 1)

assemble_final_report(plan, rc) ==
    Report("assembled", IF plan.kind = "list" THEN AssembleNodes(plan.nodes, rc, 1) ELSE <<>>)

\* Mutant: the count of the task's rows is taken as the index.
save_step_CountAsIndex(rows, action, node, status) ==
    Append(rows, StepRow(Len(rows), action, node, status, 0))

\* _save_step (context.py and write_mode.py): step_index is the count of the
\* task's rows plus one.
save_step(rows, action, node, status) ==
    Append(rows, StepRow(Len(rows) + 1, action, node, status, 0))

\* run_write_mode, phase 1: the elaboration call, context.elaboration, the
\* saved step and the elaboration string of the outline prompt.
WriteElaborate ==
    /\ pc = "write_elaborate"
    /\ \E out \in LlmOutcomes :
        \/ /\ out = "raise"
           /\ Fail("llm")
           /\ UNCHANGED <<context, steps, elaborated>>
        \/ /\ out = "return"
           /\ \E e \in Elaborations \cup {"elaboration-without-summary"} :
                /\ context' = [context EXCEPT !.elaboration = e]
                /\ steps' = save_step(steps, "Phase 1: Generate Elaboration", "", "completed")
                /\ elaborated' = e
                /\ IF e \in IncompleteElaborations
                   THEN Fail("KeyError")
                   ELSE pc' = "write_outline" /\ UNCHANGED run_error
    /\ UNCHANGED <<db_status, db_mode, db_plan, db_final_report, db_research_content,
                   is_resume, has_payload, loc, runs, stop_signal, inv_vars, fn_vars>>

\* run_write_mode, phase 2: the outline call, its metadata, the saved step,
\* and the UPDATE that stores the plan with status awaiting_user_input.
WriteOutline ==
    /\ pc = "write_outline"
    /\ \E out \in LlmOutcomes :
        \/ /\ out = "raise"
           /\ Fail("llm")
           /\ UNCHANGED <<context, steps, db_plan, db_status>>
        \/ /\ out = "return"
           /\ \E plan \in Outlines :
                /\ context' = [context EXCEPT !.plan = plan]
                /\ db_plan' = plan
           /\ steps' = save_step(steps, "Phase 2: Generate Outline", "", "completed")
           /\ db_status' = "awaiting_user_input"
           /\ pc' = "check_paused"
           /\ UNCHANGED run_error
    /\ UNCHANGED <<db_mode, db_final_report, db_research_content,
                   is_resume, has_payload, loc, hist_vars, inv_vars, fn_vars>>

\* resume_write_mode up to its first phase: the elaboration string is built
\* from context.elaboration['summary'], ['style'] and ['strategy'].
ResumeWriteBegin ==
    /\ pc = "resume_write"
    /\ IF context.elaboration \in IncompleteElaborations
       THEN Fail("KeyError") /\ UNCHANGED loc
       ELSE /\ pc' = "write_strategy"
            /\ loc' = [loc EXCEPT !.i = 1]
            /\ UNCHANGED run_error
    /\ UNCHANGED <<db_vars, is_resume, has_payload, context, hist_vars, inv_vars, fn_vars>>

InternalFrom(nodes, k) == {j \in k..Len(nodes) : ~nodes[j].leaf}
LeafIndices(nodes) == {j \in 1..Len(nodes) : nodes[j].leaf}

\* get_strategies: for the next node that has children, in document order,
\* the stop check, the strategy call and the saved step.
WriteStrategy ==
    /\ pc = "write_strategy"
    /\ LET nodes == context.plan.nodes IN
       IF InternalFrom(nodes, loc.i) = {}
       THEN /\ pc' = "write_leaf"
            /\ loc' = [loc EXCEPT !.leaf = 1, !.history = <<>>]
            /\ UNCHANGED <<run_error, steps>>
       ELSE LET j == Min(InternalFrom(nodes, loc.i)) IN
            IF check_if_task_stopped
            THEN Fail("Task stopped by user.") /\ UNCHANGED <<steps, loc>>
            ELSE \E out \in LlmOutcomes :
                 \/ /\ out = "raise"
                    /\ Fail("llm")
                    /\ UNCHANGED <<steps, loc>>
                 \/ /\ out = "return"
                    /\ steps' = save_step(steps, "Phase 3: Strategy", nodes[j].id, "completed")
                    /\ loc' = [loc EXCEPT !.i = j + 1]
                    /\ pc' = "write_strategy"
                    /\ UNCHANGED run_error
    /\ UNCHANGED <<db_status, db_mode, db_plan, db_final_report, db_research_content,
                   is_resume, has_payload, context, hist_vars, inv_vars, fn_vars>>

\* The leaves of the plan in document order (collect_writing_tasks).
RECURSIVE LeavesFrom(_, _)
LeavesFrom(nodes, k) ==
    IF k > Len(nodes) THEN <<>>
    ELSE (IF nodes[k].leaf THEN <<k>> ELSE <<>>) \o LeavesFrom(nodes, k + 1)
writing_tasks(plan) == LeavesFrom(plan.nodes, 1)

SetNodeStatus(plan, k, status) == [plan EXCEPT !.nodes[k].status = status]

\* Mutant: the accepted text is not added to the running history.
history_after_NotAdded(history, id, text) == history
\* history += f"## {section_title}\n\n{refined_content}\n\n" (line 188).
history_after(history, id, text) == Append(history, Frag(text, id, 0))

\* The head of the leaf loop: the stop check, update_node_status('writing')
\* and the generation call of _call_llm_with_critique_and_refine.
WriteLeafBegin ==
    /\ pc = "write_leaf"
    /\ LET tasks == writing_tasks(context.plan) IN
       IF loc.leaf > Len(tasks)
       THEN /\ context' = [context EXCEPT
                    !.step_results = Append(@, Frag("final_report", "", 0)),
                    !.is_finished = TRUE]
            /\ pc' = "check_paused"
            /\ UNCHANGED <<run_error, db_plan, loc>>
       ELSE IF check_if_task_stopped
       THEN Fail("Task stopped by user.") /\ UNCHANGED <<context, db_plan, loc>>
       ELSE LET plan == SetNodeStatus(context.plan, tasks[loc.leaf], "writing") IN
            /\ context' = [context EXCEPT !.plan = plan]
            /\ db_plan' = plan
            /\ \E out \in LlmOutcomes :
                IF out = "raise"
                THEN Fail("llm") /\ UNCHANGED loc
                ELSE /\ pc' = "write_critique"
                     /\ loc' = [loc EXCEPT !.iter = 0]
                     /\ UNCHANGED run_error
    /\ UNCHANGED <<db_status, db_mode, db_final_report, db_research_content, steps,
                   is_resume, has_payload, hist_vars, inv_vars, fn_vars>>

\* One iteration of the critique/refine loop: the stop check, the critique
\* call, and unless it passed the refine call.
WriteCritique ==
    /\ pc = "write_critique"
    /\ IF loc.iter >= MAX_REFINE_ITERATIONS
       THEN pc' = "write_leaf_done" /\ UNCHANGED <<run_error, loc>>
       ELSE IF check_if_task_stopped
       THEN Fail("Task stopped by user.") /\ UNCHANGED loc
       ELSE \E critique \in LlmOutcomes, passed \in BOOLEAN, refine \in LlmOutcomes :
            IF critique = "raise" \/ (~passed /\ refine = "raise")
            THEN Fail("llm") /\ UNCHANGED loc
            ELSE /\ pc' = IF passed THEN "write_leaf_done" ELSE "write_critique"
                 /\ loc' = [loc EXCEPT !.iter = IF passed THEN @ ELSE @ + 1]
                 /\ UNCHANGED run_error
    /\ UNCHANGED <<db_vars, is_resume, has_payload, context, hist_vars, inv_vars, fn_vars>>

\* Mutant: the report is assembled before the leaf's content is stored.
progressive_report_BeforeStore(plan, before, after) == assemble_final_report(plan, before)
\* progressive_report = _assemble_final_report(context), after the store
\* and update_node_status('completed') (lines 187-192).
progressive_report(plan, before, after) == assemble_final_report(plan, after)

\* The tail of the leaf loop: the saved step, research_content,
\* update_node_status('completed') and the progressive report.
WriteLeafFinish ==
    /\ pc = "write_leaf_done"
    /\ LET tasks == writing_tasks(context.plan)
           k     == tasks[loc.leaf]
           id    == context.plan.nodes[k].id
           rc    == {c \in context.research_content : c.id # id} \cup {Content(id, "content")}
           plan  == SetNodeStatus(context.plan, k, "completed")
       IN  /\ steps' = save_step(steps, "Final Content", id, "completed")
           /\ context' = [context EXCEPT !.research_content = rc, !.plan = plan]
           /\ db_plan' = plan
           /\ db_research_content' = rc
           /\ db_final_report' = progressive_report(plan, context.research_content, rc)
    /\ loc' = [loc EXCEPT !.leaf = @ + 1,
                          !.history = history_after(@, context.plan.nodes[writing_tasks(context.plan)[loc.leaf]].id,
                                                    "content")]
    /\ pc' = "write_leaf"
    /\ UNCHANGED <<db_status, db_mode, is_resume, has_payload, run_error, hist_vars, inv_vars, fn_vars>>

(***************************************************************************)
(* Debate mode (debate_mode.py).  A round is [stage, pro, con]: stage      *)
(* counts the fields the round has (1 rules, 2 pro_argument,               *)
(* 3 con_argument, 4 evaluation); pro and con are the evaluation's scores. *)
(***************************************************************************)
MaxDebateRounds == 3
Thresholds == {8}
ScorePairs == {<<5, 0>>, <<0, 5>>}

Round(stage, pro, con) == [stage |-> stage, pro |-> pro, con |-> con]

RECURSIVE SumScores(_, _)
SumScores(rounds, side) ==
    IF rounds = <<>> THEN 0
    ELSE (IF side = "pro" THEN Head(rounds).pro ELSE Head(rounds).con)
            + SumScores(Tail(rounds), side)
Abs(x) == IF x < 0 THEN -x ELSE x

\* _call_llm_and_save: _save_step(action, {}, "running"), the model call,
\* then _save_step(action, data).  Each _save_step INSERTs a row.
call_llm_and_save(rows, action, node, out) ==
    IF out = "raise" THEN save_step(rows, action, node, "running")
    ELSE save_step(save_step(rows, action, node, "running"), action, node, "completed")

\* Mutant: phase 1 runs whatever the debate state holds.
personas_missing_Always(state) == TRUE
\* 'personas' not in debate_state (line 21).
personas_missing(state) == ~state.personas

\* Phase 1: personas and complexity, unless the debate state has them.
DebateSetup ==
    /\ pc = "debate_setup"
    /\ LET state == IF context.plan.kind = "debate" THEN context.plan
                    ELSE [NoPlan EXCEPT !.kind = "debate"]
       IN  IF ~personas_missing(state)
           THEN /\ loc' = [loc EXCEPT !.debate_state = state]
                /\ pc' = "debate_rules"
                /\ UNCHANGED <<run_error, steps, db_plan, db_status>>
           ELSE \E out \in LlmOutcomes :
                /\ steps' = call_llm_and_save(steps, "Phase 1: Generate Personas & Complexity", "", out)
                /\ IF out = "raise"
                   THEN Fail("llm") /\ UNCHANGED <<loc, db_plan, db_status>>
                   ELSE \E mr \in 1..MaxDebateRounds, th \in Thresholds :
                        LET st == [state EXCEPT !.personas = TRUE, !.max_rounds = mr,
                                                !.threshold = th, !.rounds = <<>>]
                        IN  /\ loc' = [loc EXCEPT !.debate_state = st]
                            /\ db_plan' = st
                            /\ db_status' = "running"
                            /\ pc' = "debate_rules"
                            /\ UNCHANGED run_error
    /\ UNCHANGED <<db_mode, db_final_report, db_research_content,
                   is_resume, has_payload, context, hist_vars, inv_vars, fn_vars>>

\* A sub-step of a round: the stop check, _call_llm_and_save, the field
\* stored in the debate state (newstate) and the UPDATE of the plan column.
DebateSubStep(action, next_pc, newstate) ==
    IF check_if_task_stopped
    THEN Fail("Task stopped by user.") /\ UNCHANGED <<steps, loc, db_plan>>
    ELSE \E out \in LlmOutcomes :
         /\ steps' = call_llm_and_save(steps, action, "", out)
         /\ IF out = "raise"
            THEN Fail("llm") /\ UNCHANGED <<loc, db_plan>>
            ELSE /\ loc' = [loc EXCEPT !.debate_state = newstate]
                 /\ db_plan' = newstate
                 /\ pc' = next_pc
                 /\ UNCHANGED run_error

AppendRound(st) == [st EXCEPT !.rounds = Append(@, Round(1, 0, 0))]
SetStage(st, stage) == [st EXCEPT !.rounds[Len(st.rounds)].stage = stage]

\* The head of the round loop and "Judge Sets Rules".
DebateRules ==
    /\ pc = "debate_rules"
    /\ IF Len(loc.debate_state.rounds) >= loc.debate_state.max_rounds
       THEN pc' = "debate_verdict" /\ UNCHANGED <<run_error, steps, loc, db_plan>>
       ELSE DebateSubStep("Phase 2.r.1: Judge Sets Rules", "debate_pro", AppendRound(loc.debate_state))
    /\ UNCHANGED <<db_status, db_mode, db_final_report, db_research_content,
                   is_resume, has_payload, context, hist_vars, inv_vars, fn_vars>>

DebatePro ==
    /\ pc = "debate_pro"
    /\ DebateSubStep("Phase 2.r.2: Pro Argues", "debate_con", SetStage(loc.debate_state, 2))
    /\ UNCHANGED <<db_status, db_mode, db_final_report, db_research_content,
                   is_resume, has_payload, context, hist_vars, inv_vars, fn_vars>>

DebateCon ==
    /\ pc = "debate_con"
    /\ DebateSubStep("Phase 2.r.3: Con Argues", "debate_evaluate", SetStage(loc.debate_state, 3))
    /\ UNCHANGED <<db_status, db_mode, db_final_report, db_research_content,
                   is_resume, has_payload, context, hist_vars, inv_vars, fn_vars>>

\* "Judge Evaluates" and the early-finish test on the summed scores.
DebateEvaluate ==
    /\ pc = "debate_evaluate"
    /\ \E sc \in ScorePairs :
        LET st == loc.debate_state
            after == [st EXCEPT !.rounds[Len(st.rounds)] = Round(4, sc[1], sc[2])]
            diff == Abs(SumScores(after.rounds, "pro") - SumScores(after.rounds, "con"))
        IN  DebateSubStep("Phase 2.r.4: Judge Evaluates",
                          IF diff >= after.threshold THEN "debate_verdict" ELSE "debate_rules",
                          after)
    /\ UNCHANGED <<db_status, db_mode, db_final_report, db_research_content,
                   is_resume, has_payload, context, hist_vars, inv_vars, fn_vars>>

\* Mutant: the verdict is requested whatever the debate state holds.
verdict_missing_Always(state) == TRUE
\* 'verdict' not in debate_state (line 88).
verdict_missing(state) == ~state.verdict

\* Phase 3: the verdict unless present, then the final report of the mode.
DebateVerdict ==
    /\ pc = "debate_verdict"
    /\ IF ~verdict_missing(loc.debate_state)
       THEN UNCHANGED <<run_error, steps, loc, db_plan>> /\ pc' = "check_paused"
       ELSE DebateSubStep("Phase 3: Final Verdict", "check_paused",
                          [loc.debate_state EXCEPT !.verdict = TRUE])
    /\ context' = IF pc' = "check_paused"
                  THEN [context EXCEPT !.step_results = Append(@, Frag("verdict", "", 0)),
                                       !.is_finished = TRUE]
                  ELSE context
    /\ UNCHANGED <<db_status, db_mode, db_final_report, db_research_content,
                   is_resume, has_payload, hist_vars, inv_vars, fn_vars>>

(***************************************************************************)
(* The task runner (runner.py) after the mode has returned or raised.      *)
(***************************************************************************)
\* _execute_task lines 98-103: a task paused for user input is left as is.
RunnerCheckPaused ==
    /\ pc = "check_paused"
    /\ pc' = IF db_status = "awaiting_user_input" THEN "idle" ELSE "synthesize"
    /\ UNCHANGED <<db_vars, is_resume, has_payload, run_error, context, loc, hist_vars, inv_vars, fn_vars>>

\* _synthesize_final_report: the assembled document for write and research,
\* a fixed message when there are no results, else one model call.
RunnerSynthesize ==
    /\ pc = "synthesize"
    /\ IF db_mode \in {"write", "research"}
       THEN /\ loc' = [loc EXCEPT !.final_report =
                            assemble_final_report(context.plan, context.research_content)]
            /\ pc' = "finalize"
            /\ UNCHANGED run_error
       ELSE IF context.step_results = <<>>
       THEN /\ loc' = [loc EXCEPT !.final_report = Report("no content was generated", <<>>)]
            /\ pc' = "finalize"
            /\ UNCHANGED run_error
       ELSE \E out \in LlmOutcomes :
            IF out = "raise"
            THEN Fail("llm") /\ UNCHANGED loc
            ELSE /\ loc' = [loc EXCEPT !.final_report = Report("synthesized", <<>>)]
                 /\ pc' = "finalize"
                 /\ UNCHANGED run_error
    /\ UNCHANGED <<db_vars, is_resume, has_payload, context, hist_vars, inv_vars, fn_vars>>

\* Mutant: the error message is dropped from the stored report.
ReportContent_DropsError(error, final_report) == final_report

\* report_content = error_message if error_message else final_report
ReportContent(error, final_report) ==
    IF error # "" THEN ErrorReport(error) ELSE final_report

\* Mutant: a failed run leaves the status as it is.
FinalStatus_KeepsOnError(error, current) ==
    IF error # "" THEN current ELSE "completed"

\* status = "failed" in the except clause, else "completed" (lines 114-117).
FinalStatus(error, current) ==
    IF error # "" THEN "failed" ELSE "completed"

\* _execute_task lines 116-128: the terminal status and the report.
RunnerFinalize ==
    /\ pc = "finalize"
    /\ db_status' = FinalStatus(run_error, db_status)
    /\ db_final_report' = ReportContent(run_error, loc.final_report)
    /\ pc' = "idle"
    /\ UNCHANGED <<db_mode, db_plan, db_research_content, steps,
                   is_resume, has_payload, run_error, context, loc, hist_vars, inv_vars, fn_vars>>

(***************************************************************************)
(* The endpoints (agent.py) and the resume branch of run_task_background.  *)
(***************************************************************************)
\* stop_task: a running, planning or paused task is marked failed.
StopTask ==
    /\ db_status \in {"running", "planning", "awaiting_user_input"}
    /\ db_status' = "failed"
    /\ db_final_report' = StoppedReport
    /\ stop_signal' = (stop_signal \/ db_status \in {"running", "planning"})
    /\ UNCHANGED <<db_mode, db_plan, db_research_content, steps, run_vars,
                   runs, elaborated, inv_vars, fn_vars>>

ResumePc(m) == IF m \in {"write", "research"} THEN "resume_write" ELSE FirstPc(m)

\* The context run_task_background rebuilds from the task row: the
\* knowledge-source selection is None, the plan and research_content are
\* read back, the elaboration is not.
ResumedContext ==
    [NewContext("none") EXCEPT
        !.plan = IF db_plan.kind = "none" THEN @ ELSE db_plan,
        !.research_content = db_research_content]

\* restart_task: run_task_background(is_resume=True) without a payload.
RestartTask ==
    /\ pc = "idle"
    /\ db_status # "none"
    /\ runs < MaxRuns
    /\ db_status' = "running"
    /\ context' = ResumedContext
    /\ pc' = ResumePc(db_mode)
    /\ is_resume' = TRUE
    /\ has_payload' = FALSE
    /\ run_error' = ""
    /\ loc' = [NoLoc EXCEPT !.i = 1]
    /\ runs' = runs + 1
    /\ stop_signal' = FALSE
    /\ UNCHANGED <<db_mode, db_plan, db_final_report, db_research_content, steps,
                   elaborated, inv_vars, fn_vars>>

PayloadPlans == {ListPlan(OutlineFlat), ListPlan(OutlineTree)}
PayloadElaborations == Elaborations \cup {"elaboration-without-summary"}

\* resume_write_task: run_task_background(is_resume=True) with the payload
\* {elaboration, plan} the user confirmed or edited.
ResumeWriteTask ==
    /\ pc = "idle"
    /\ db_status # "none"
    /\ db_mode \in {"write", "research"}
    /\ runs < MaxResumes
    /\ \E plan \in PayloadPlans, e \in PayloadElaborations :
        /\ db_plan' = plan
        /\ context' = [ResumedContext EXCEPT !.plan = plan, !.elaboration = e]
    /\ db_status' = "running"
    /\ pc' = ResumePc(db_mode)
    /\ is_resume' = TRUE
    /\ has_payload' = TRUE
    /\ run_error' = ""
    /\ loc' = [NoLoc EXCEPT !.i = 1]
    /\ runs' = runs + 1
    /\ stop_signal' = FALSE
    /\ UNCHANGED <<db_mode, db_final_report, db_research_content, steps,
                   elaborated, inv_vars, fn_vars>>

(***************************************************************************)
(* Specifications.                                                         *)
(***************************************************************************)
InvUnused ==
    /\ inv_pc = "unused"
    /\ max_retries = 0
    /\ attempt = 0
    /\ gateway_log = <<>>
    /\ inv_result = NoResult

EngineInit ==
    /\ db_status = "none"
    /\ db_mode = "plan"
    /\ db_plan = NoPlan
    /\ db_final_report = NoReport
    /\ db_research_content = {}
    /\ steps = <<>>
    /\ pc = "idle"
    /\ is_resume = FALSE
    /\ has_payload = FALSE
    /\ run_error = ""
    /\ context = NewContext("none")
    /\ loc = NoLoc
    /\ runs = 0
    /\ stop_signal = FALSE
    /\ elaborated = ""

\* The steps of the run of a task.
RunStep ==
    \/ PlanGenerate \/ PlanStepBegin \/ PlanStepFinish
    \/ ExploreStepBegin \/ ExploreStepFinish
    \/ WriteElaborate \/ WriteOutline
    \/ ResumeWriteBegin \/ WriteStrategy \/ WriteLeafBegin \/ WriteCritique \/ WriteLeafFinish
    \/ DebateSetup \/ DebateRules \/ DebatePro \/ DebateCon \/ DebateEvaluate \/ DebateVerdict
    \/ RunnerCheckPaused \/ RunnerSynthesize \/ RunnerFinalize

FnUnused ==
    /\ fn_pc = "unused"
    /\ fn_in = <<>>
    /\ fn_out = <<>>

Init == InvUnused /\ EngineInit /\ FnUnused

Next == StartTask \/ RunStep \/ StopTask \/ RestartTask \/ ResumeWriteTask

Spec == Init /\ [][Next]_vars

\* Every model and tool call returns or fails: a run that can take a step
\* eventually takes one.
FairSpec == Spec /\ WF_vars(RunStep)

InvInit == InvStart /\ EngineInit /\ FnUnused

InvNext == LlmAttempt \/ LlmLoopEnd

InvSpec == InvInit /\ [][InvNext]_vars

(***************************************************************************)
(* The extraction of the invoker taken by itself: a JSON object is         *)
(* serialized, put bare, in a fence or between prose, and extracted.       *)
(***************************************************************************)
\* json.dumps: ", " between items and ": " after a key.
RECURSIVE Serialize(_)
RECURSIVE SerializeItems(_)
SerializeItems(items) ==
    IF items = <<>> THEN <<>>
    ELSE Serialize(Head(items))
            \o (IF Len(items) > 1 THEN <<",", "_">> ELSE <<>>)
            \o SerializeItems(Tail(items))

Serialize(val) ==
    CASE val.t = "str" -> <<val.k>>
      [] val.t = "num" -> <<"1">>
      [] val.t = "null" -> <<"z">>
      [] val.t = "arr" -> <<"[">> \o SerializeItems(val.v) \o <<"]">>
      [] val.t = "pair" -> <<val.k, ":", "_">> \o Serialize(val.v[1])
      [] val.t = "obj" -> <<"{">> \o SerializeItems(val.v) \o <<"}">>

JsonObjects ==
    { JObj(<<>>),
      JObj(<<JPair("a", JNum)>>),
      JObj(<<JPair("a", JStr("b")), JPair("b", JNull)>>),
      JObj(<<JPair("a", JObj(<<JPair("b", JNum)>>))>>),
      JObj(<<JPair("a", JArr(<<JNum, JObj(<<>>)>>))>>),
      JObj(<<JPair("a", JStr("t"))>>),
      JObj(<<JPair("a", JStr("t")), JPair("b", JObj(<<JPair("a", JNum)>>))>>) }

\* Prose without braces, fences or markers, and prose that has braces.
PlainProse == {<<>>, <<"w">>, <<"w", "_", "w">>, <<"w", ":", "_">>, <<"1", ",", "w">>}
BracedProse == {<<"w", "{", "w", "}">>, <<"w", "}">>}
Proses == PlainProse \cup BracedProse
Wrappings == {"bare", "fenced", "prose"}

\* The response text for an object in a wrapping.
Wrapped(o, wrap, before, after) ==
    CASE wrap = "bare" -> Serialize(o)
      [] wrap = "fenced" -> <<"F", "_">> \o Serialize(o) \o <<"_", "E">>
      [] wrap = "prose" -> before \o <<"_">> \o Serialize(o) \o <<"_">> \o after

ExtInit ==
    /\ fn_pc = "ready"
    /\ fn_in \in [o : JsonObjects, wrap : Wrappings, before : Proses, after : Proses]
    /\ fn_out = NoResult
    /\ InvUnused /\ EngineInit

\* The try block of the invoker from line 162 on, applied to the text.
ExtractApply ==
    /\ fn_pc = "ready"
    /\ fn_out' = ExtractJson(Wrapped(fn_in.o, fn_in.wrap, fn_in.before, fn_in.after))
    /\ fn_pc' = "done"
    /\ UNCHANGED <<fn_in, inv_vars, engine_vars>>

ExtSpec == ExtInit /\ [][ExtractApply]_vars

(***************************************************************************)
(* The dispatcher taken by itself (_dispatch_tool_call): what it raises,   *)
(* which tool function it calls and what becomes of the Task Context.      *)
(***************************************************************************)
\* inspect.signature of the three tool functions, in parameter order; no
\* parameter has a default.
ToolSignature(tool) ==
    CASE tool = "retrieve_knowledge" -> <<"query", "api_config", "context">>
      [] tool = "reasoning_step" -> <<"thought">>
      [] tool = "finish_task" -> <<"context", "conclusion">>

DispatchError(kind, param) ==
    [tag |-> "raise", error |-> kind, param |-> param, called |-> <<>>, observation |-> <<>>,
     kwargs |-> <<>>]

\* A text as a list of fragments; "\n\n".join(parts) is the list of parts.
Text(t) == <<Frag(t, "", 0)>>
NothingToReport ==
    "The task is complete, but no conclusion was provided and no results were generated."

\* Mutant: an empty conclusion always gives the joined step results.
tool_finish_task_JoinsAlways(ctx, conclusion) ==
    IF conclusion # "" THEN Text(conclusion) ELSE ctx.step_results

\* _tool_finish_task (lines 89-92): conclusion is "" or a text.
tool_finish_task(ctx, conclusion) ==
    IF conclusion = "" /\ ctx.step_results = <<>> THEN Text(NothingToReport)
    ELSE IF conclusion # "" THEN Text(conclusion)
    ELSE ctx.step_results

\* What the tool function returns.
ToolObservation(tool, action_input, ctx) ==
    CASE tool = "retrieve_knowledge" ->
            IF ctx.kb = "none" THEN Text("No knowledge source selected") ELSE Text("retrieved")
      [] tool = "reasoning_step" -> Text("thought")
      [] tool = "finish_task" -> tool_finish_task(ctx, action_input.conclusion)

\* Mutant: finish_task marks the task finished.
ContextAfterTool_FinishSetsFlag(tool, ctx) ==
    IF tool = "finish_task" THEN [ctx EXCEPT !.is_finished = TRUE] ELSE ctx

\* The context after the tool function ran: none of the three assigns to
\* it (lines 35-92).
ContextAfterTool(tool, ctx) == ctx

\* Mutant: a supplied api_config or context is kept (setdefault).
call_kwargs_of_KeepsSupplied(keys, valid) ==
    [k \in (keys \cap valid) \cup (Injected \cap valid) |->
        IF k \in keys THEN "model" ELSE "task_context"]

\* Lines 114-122: the supplied arguments the tool declares, then api_config
\* and context assigned from the Task Context.  Each argument is mapped to
\* where its value comes from.
call_kwargs_of(keys, valid) ==
    [k \in (keys \cap valid) \cup (Injected \cap valid) |->
        IF k \in Injected \cap valid THEN "task_context" ELSE "model"]

\* Mutant: a payload that is no object is taken as the empty object.
dispatch_outcome_AcceptsNonObject(action, action_input, ctx) ==
    IF action \notin TOOL_DISPATCHER THEN DispatchError("invalid tool", action)
    ELSE LET sig == ToolSignature(action)
             valid == {sig[i] : i \in 1..Len(sig)}
             call_kwargs == (action_input.keys \cap valid) \cup (Injected \cap valid)
             missing == {i \in 1..Len(sig) : sig[i] \notin call_kwargs}
         IN  IF missing # {} THEN DispatchError("missing required parameter", sig[Min(missing)])
             ELSE [tag |-> "invoked", error |-> "", param |-> "", called |-> <<action>>,
                   observation |-> ToolObservation(action, action_input, ctx),
                   kwargs |-> call_kwargs_of(action_input.keys, valid)]

\* Mutant: the tool function is called without the check of its parameters.
dispatch_outcome_CallsUnchecked(action, action_input, ctx) ==
    IF action \notin TOOL_DISPATCHER THEN DispatchError("invalid tool", action)
    ELSE IF ~action_input.is_dict THEN DispatchError("invalid action_input", "")
    ELSE LET sig == ToolSignature(action)
             valid == {sig[i] : i \in 1..Len(sig)}
             call_kwargs == (action_input.keys \cap valid) \cup (Injected \cap valid)
             missing == {i \in 1..Len(sig) : sig[i] \notin call_kwargs}
         IN  IF missing # {}
             THEN [DispatchError("TypeError", sig[Min(missing)]) EXCEPT !.called = <<action>>]
             ELSE [tag |-> "invoked", error |-> "", param |-> "", called |-> <<action>>,
                   observation |-> ToolObservation(action, action_input, ctx),
                   kwargs |-> call_kwargs_of(action_input.keys, valid)]

\* _dispatch_tool_call, lines 105-129.
dispatch_outcome(action, action_input, ctx) ==
    IF action \notin TOOL_DISPATCHER THEN DispatchError("invalid tool", action)
    ELSE IF ~action_input.is_dict THEN DispatchError("invalid action_input", "")
    ELSE LET sig == ToolSignature(action)
             valid == {sig[i] : i \in 1..Len(sig)}
             call_kwargs == (action_input.keys \cap valid) \cup (Injected \cap valid)
             missing == {i \in 1..Len(sig) : sig[i] \notin call_kwargs}
         IN  IF missing # {} THEN DispatchError("missing required parameter", sig[Min(missing)])
             ELSE [tag |-> "invoked", error |-> "", param |-> "", called |-> <<action>>,
                   observation |-> ToolObservation(action, action_input, ctx),
                   kwargs |-> call_kwargs_of(action_input.keys, valid)]

ActionNames == TOOL_DISPATCHER \cup {"search_web", "none"}
PayloadKeys == {"query", "thought", "conclusion", "top_k", "context", "api_config"}
\* A payload with the value of its conclusion key ("" without the key).
Payload(ks, c) == [is_dict |-> TRUE, keys |-> ks, conclusion |-> c]
Payloads ==
    {Payload(ks, "") : ks \in SUBSET PayloadKeys}
        \cup {Payload(ks, "c") : ks \in {k \in SUBSET PayloadKeys : "conclusion" \in k}}
        \cup {[is_dict |-> FALSE, keys |-> {}, conclusion |-> ""]}
\* Contexts with no, one and two accumulated step results.
DispatchContexts ==
    {[NewContext(kb) EXCEPT !.step_results = r] :
        kb \in KbSelections,
        r \in {<<>>, <<Frag("result", "", 1)>>,
                <<Frag("result", "", 1), Frag("result", "", 2)>>}}

DispatchInit ==
    /\ fn_pc = "ready"
    /\ fn_in \in [action : ActionNames, action_input : Payloads,
                  context : DispatchContexts]
    /\ fn_out = [result |-> DispatchError("", ""), context |-> NewContext("none")]
    /\ InvUnused /\ EngineInit

\* One call of the dispatcher; the context is the caller's object.
DispatchApply ==
    /\ fn_pc = "ready"
    /\ LET result == dispatch_outcome(fn_in.action, fn_in.action_input, fn_in.context) IN
       fn_out' = [result |-> result,
                  context |-> IF result.tag = "invoked"
                              THEN ContextAfterTool(fn_in.action, fn_in.context)
                              ELSE fn_in.context]
    /\ fn_pc' = "done"
    /\ UNCHANGED <<fn_in, inv_vars, engine_vars>>

DispatchSpec == DispatchInit /\ [][DispatchApply]_vars

(***************************************************************************)
(* The Report Assembler taken by itself (_assemble_final_report), called   *)
(* twice on the same plan and research_content.                            *)
(***************************************************************************)
OutlineDeep ==
    <<Node("1", "", "t", FALSE, "pending"), Node("1.1", "1", "t", FALSE, "pending"),
      Node("1.1.1", "1.1", "t", TRUE, "pending"), Node("1.2", "1", "t", TRUE, "pending"),
      Node("2", "", "t", TRUE, "pending")>>
AsmPlans ==
    Outlines \cup {ListPlan(OutlineDeep), NoPlan, [NoPlan EXCEPT !.kind = "debate"]}
AsmContents ==
    SUBSET {Content(id, "text") : id \in {"1", "1.1", "1.1.1", "2", "9"}}

AsmInit ==
    /\ fn_pc = "ready"
    /\ fn_in \in [plan : AsmPlans, rc : AsmContents]
    /\ fn_out = <<>>
    /\ InvUnused /\ EngineInit

\* One invocation; its output is kept next to the earlier one.
AsmApply ==
    /\ fn_pc \in {"ready", "once"}
    /\ fn_out' = Append(fn_out, assemble_final_report(fn_in.plan, fn_in.rc))
    /\ fn_pc' = IF fn_pc = "ready" THEN "once" ELSE "done"
    /\ UNCHANGED <<fn_in, inv_vars, engine_vars>>

AsmSpec == AsmInit /\ [][AsmApply]_vars

(***************************************************************************)
(* The content jobs of a write/research task: generate-node-content        *)
(* (_generate_node_content) and refine-section (_refine_node_content).     *)
(* Each request queues a background job with its own connection; two jobs  *)
(* of one task run in different threads, so their statements interleave.   *)
(* fn_in holds the two requests and the schema of agent_tasks, fn_pc each  *)
(* job's position and fn_out each job's locals.                            *)
(***************************************************************************)
JobIds == {1, 2}
JobNodeIds == {"1", "1.1", "2"}
ContentJobs ==
    [kind : {"refine"}, node_id : JobNodeIds, is_manual : BOOLEAN]
        \cup [kind : {"generate"}, node_id : JobNodeIds, is_manual : {FALSE}]

\* What a write run that stored the first leaves leaves in the task row.
JobContents ==
    {{}, {Content("1.1", "content")}, {Content("1.1", "content"), Content("2", "content")}}
JobPlan(rc) ==
    ListPlan([k \in 1..Len(OutlineTree) |->
                IF \E c \in rc : c.id = OutlineTree[k].id
                THEN [OutlineTree[k] EXCEPT !.status = "completed"]
                ELSE OutlineTree[k]])

NoJobLocals == [plan |-> NoPlan, rc |-> {}, refined |-> ""]
NodeIndex(plan, id) == CHOOSE k \in 1..Len(plan.nodes) : plan.nodes[k].id = id

\* find_node_and_build_history reaches a leaf with stored content before
\* the target: `history +=` on a name that is local to the nested function.
EarlierLeafStored(plan, rc, id) ==
    \E k \in 1..(NodeIndex(plan, id) - 1) :
        plan.nodes[k].leaf /\ \E c \in rc : c.id = plan.nodes[k].id

RefinedText(j, job) ==
    IF job.is_manual THEN (IF j = 1 THEN "manual-1" ELSE "manual-2")
    ELSE (IF j = 1 THEN "refined-1" ELSE "refined-2")

\* content_node with the old text appended to its history and the new
\* text as current (refine_mode.py 151-160).
Refined(c, text, job) ==
    [c EXCEPT !.history = Append(c.history, [prompt  |-> IF job.is_manual THEN "Manual Replacement"
                                                       ELSE "user_prompt",
                                             content |-> c.current]),
              !.current = text]

JobInit ==
    /\ fn_pc = [j \in JobIds |-> "queued"]
    /\ fn_in \in [jobs : [JobIds -> ContentJobs], kb_column : BOOLEAN]
    /\ fn_out = [j \in JobIds |-> NoJobLocals]
    /\ InvUnused
    /\ db_status = "completed"
    /\ db_mode = "write"
    /\ db_research_content \in JobContents
    /\ db_plan = JobPlan(db_research_content)
    /\ db_final_report = assemble_final_report(db_plan, db_research_content)
    /\ steps = <<>>
    /\ pc = "idle"
    /\ is_resume = FALSE
    /\ has_payload = FALSE
    /\ run_error = ""
    /\ context = NewContext("none")
    /\ loc = NoLoc
    /\ runs = 1
    /\ stop_signal = FALSE
    /\ elaborated = ""

JobUnchanged == UNCHANGED <<fn_in, inv_vars, run_vars, hist_vars, db_status, db_mode>>

\* The SELECT of the task row and what the job derives from it before its
\* next statement.  The refine job names the column knowledge_base_selection
\* and needs stored content for its node; the generate job finds its node.
JobSelect(j) ==
    /\ fn_pc[j] = "queued"
    /\ LET job == fn_in.jobs[j]
           ok  == IF job.kind = "refine"
                  THEN fn_in.kb_column /\ \E c \in db_research_content : c.id = job.node_id
                  ELSE ~EarlierLeafStored(db_plan, db_research_content, job.node_id)
       IN  IF ~ok
           THEN fn_pc' = [fn_pc EXCEPT ![j] = "failed"] /\ UNCHANGED fn_out
           ELSE /\ fn_out' = [fn_out EXCEPT ![j] =
                                [plan |-> db_plan, rc |-> db_research_content,
                                 refined |-> IF job.kind = "refine" /\ job.is_manual
                                             THEN RefinedText(j, job) ELSE ""]]
                /\ fn_pc' = [fn_pc EXCEPT ![j] =
                                IF job.kind = "generate" THEN "mark_writing"
                                ELSE IF job.is_manual THEN "store" ELSE "llm"]
    /\ UNCHANGED <<db_plan, db_research_content, db_final_report, steps>>
    /\ JobUnchanged

\* research_mode.py 87-89: the node is marked 'writing' in the job's copy of
\* the plan and the whole plan is written back.
GenMarkWriting(j) ==
    /\ fn_pc[j] = "mark_writing"
    /\ LET plan == SetNodeStatus(fn_out[j].plan, NodeIndex(fn_out[j].plan, fn_in.jobs[j].node_id),
                                 "writing")
       IN  /\ fn_out' = [fn_out EXCEPT ![j].plan = plan]
           /\ db_plan' = plan
    /\ fn_pc' = [fn_pc EXCEPT ![j] = "prompt"]
    /\ UNCHANGED <<db_research_content, db_final_report, steps>>
    /\ JobUnchanged

\* research_mode.py 92-99: build_writer_section_content_prompt is called
\* without its required planned_word_count: TypeError, caught at line 135.
GenPrompt(j) ==
    /\ fn_pc[j] = "prompt"
    /\ fn_pc' = [fn_pc EXCEPT ![j] = "failed"]
    /\ UNCHANGED <<fn_out, db_plan, db_research_content, db_final_report, steps>>
    /\ JobUnchanged

\* refine_mode.py 139-146: one completion call, not retried.
RefineLlm(j) ==
    /\ fn_pc[j] = "llm"
    /\ \E out \in LlmOutcomes :
        IF out = "raise"
        THEN fn_pc' = [fn_pc EXCEPT ![j] = "failed"] /\ UNCHANGED fn_out
        ELSE /\ fn_out' = [fn_out EXCEPT ![j].refined = RefinedText(j, fn_in.jobs[j])]
             /\ fn_pc' = [fn_pc EXCEPT ![j] = "store"]
    /\ UNCHANGED <<db_plan, db_research_content, db_final_report, steps>>
    /\ JobUnchanged

\* refine_mode.py 148-170: the step row, then the job's copy of
\* research_content with its node replaced and the report assembled from
\* the job's copies are written to the task row.
RefineStore(j) ==
    /\ fn_pc[j] = "store"
    /\ LET job == fn_in.jobs[j]
           old == CHOOSE c \in fn_out[j].rc : c.id = job.node_id
           rc  == (fn_out[j].rc \ {old}) \cup {Refined(old, fn_out[j].refined, job)}
       IN  /\ steps' = save_step(steps, "refine", job.node_id, "completed")
           /\ db_research_content' = rc
           /\ db_final_report' = assemble_final_report(fn_out[j].plan, rc)
           /\ fn_out' = [fn_out EXCEPT ![j].rc = rc]
    /\ fn_pc' = [fn_pc EXCEPT ![j] = "done"]
    /\ UNCHANGED db_plan
    /\ JobUnchanged

JobNext ==
    \E j \in JobIds :
        \/ JobSelect(j) \/ GenMarkWriting(j) \/ GenPrompt(j)
        \/ RefineLlm(j) \/ RefineStore(j)

JobSpec == JobInit /\ [][JobNext]_vars

(***************************************************************************)
(* The quality gate of one leaf taken by itself                            *)
(* (_call_llm_with_critique_and_refine), called by resume_write_mode for a *)
(* running task that stop_task may mark failed meanwhile.  fn_pc is the    *)
(* position in the function; fn_out holds its locals and counts its calls. *)
(* A draft is [n, has_content]: n = 0 for the generated draft, k for the   *)
(* draft the k-th refine call returned.                                    *)
(***************************************************************************)
Draft(n, has_content) == [n |-> n, has_content |-> has_content]
CritiqueVerdicts == {"passed", "not-passed", "no-passed-key"}

\* Mutant: the loop runs once more.
refine_loop_continues_OneMore(i) == i <= MAX_REFINE_ITERATIONS
\* for i in range(MAX_REFINE_ITERATIONS)
refine_loop_continues(i) == i < MAX_REFINE_ITERATIONS

\* critique_data.get("passed", False)
critique_passed(verdict) == verdict = "passed"

GateLocals ==
    [i |-> 0, current_content |-> Draft(0, FALSE), generations |-> 0, critiques |-> 0,
     refines |-> 0, passes |-> 0, reviewed |-> Draft(0, FALSE), tag |-> "", error |-> "",
     value |-> Draft(0, FALSE)]

GateInit ==
    /\ fn_pc = "generate"
    /\ fn_in = <<>>
    /\ fn_out = GateLocals
    /\ InvUnused
    /\ db_status = "running"
    /\ db_mode = "write"
    /\ db_plan = ListPlan(OutlineFlat)
    /\ db_final_report = NoReport
    /\ db_research_content = {}
    /\ steps = <<>>
    /\ pc = "idle"
    /\ is_resume = TRUE
    /\ has_payload = TRUE
    /\ run_error = ""
    /\ context = NewContext("none")
    /\ loc = NoLoc
    /\ runs = 1
    /\ stop_signal = FALSE
    /\ elaborated = ""

GateRaise(e) ==
    /\ fn_pc' = "done"
    /\ fn_out' = [fn_out EXCEPT !.tag = "raise", !.error = e, !.i = 0]
GateReturn ==
    /\ fn_pc' = "done"
    /\ fn_out' = [fn_out EXCEPT !.tag = "return", !.value = fn_out.current_content, !.i = 0]

\* Line 32: the generation call.
GateGenerate ==
    /\ fn_pc = "generate"
    /\ \E out \in LlmOutcomes, has_content \in BOOLEAN :
        IF out = "raise"
        THEN /\ fn_pc' = "done"
             /\ fn_out' = [fn_out EXCEPT !.tag = "raise", !.error = "llm", !.generations = 1]
        ELSE /\ fn_pc' = "loop"
             /\ fn_out' = [fn_out EXCEPT !.generations = 1,
                                         !.current_content = Draft(0, has_content)]
    /\ UNCHANGED <<fn_in, inv_vars, engine_vars>>

\* Lines 36-47: the head of an iteration, the stop check, the critique
\* prompt (which reads content['content']) and the critique call; line 60
\* when the loop is exhausted.
GateCritique ==
    /\ fn_pc = "loop"
    /\ IF ~refine_loop_continues(fn_out.i)
       THEN GateReturn
       ELSE IF check_if_task_stopped
       THEN GateRaise("Task stopped by user.")
       ELSE IF ~fn_out.current_content.has_content
       THEN GateRaise("KeyError")
       ELSE \E out \in LlmOutcomes, verdict \in CritiqueVerdicts :
            IF out = "raise"
            THEN /\ fn_pc' = "done"
                 /\ fn_out' = [fn_out EXCEPT !.tag = "raise", !.error = "llm",
                                             !.critiques = @ + 1, !.i = 0]
            ELSE IF critique_passed(verdict)
            THEN /\ fn_pc' = "done"
                 /\ fn_out' = [fn_out EXCEPT !.tag = "return", !.critiques = @ + 1,
                                             !.passes = @ + 1, !.i = 0,
                                             !.reviewed = fn_out.current_content,
                                             !.value = fn_out.current_content]
            ELSE /\ fn_pc' = "refine"
                 /\ fn_out' = [fn_out EXCEPT !.critiques = @ + 1,
                                             !.reviewed = fn_out.current_content]
    /\ UNCHANGED <<fn_in, inv_vars, engine_vars>>

\* Lines 52-57: the refine call and current_content = refined_data.
GateRefine ==
    /\ fn_pc = "refine"
    /\ \E out \in LlmOutcomes, has_content \in BOOLEAN :
        IF out = "raise"
        THEN /\ fn_pc' = "done"
             /\ fn_out' = [fn_out EXCEPT !.tag = "raise", !.error = "llm",
                                         !.refines = @ + 1, !.i = 0]
        ELSE /\ fn_pc' = "loop"
             /\ fn_out' = [fn_out EXCEPT !.refines = @ + 1, !.i = @ + 1,
                                         !.current_content = Draft(fn_out.refines + 1, has_content)]
    /\ UNCHANGED <<fn_in, inv_vars, engine_vars>>

GateNext == GateGenerate \/ GateCritique \/ GateRefine \/ StopTask

GateSpec == GateInit /\ [][GateNext]_vars

(***************************************************************************)
(* Plan generation taken by itself: the validation and the UPDATE of       *)
(* _generate_and_save_plan on what the planner call returned under "plan", *)
(* then the head of run_plan_mode's loop for the first entry.  An entry is *)
(* [shape, has_sub_goal]: an object with or without the key sub_goal, a    *)
(* text or an array that does or does not contain "sub_goal", or a number. *)
(***************************************************************************)
MaxEntries == 3
Entry(shape, has_sub_goal) == [shape |-> shape, has_sub_goal |-> has_sub_goal]
PlanEntries ==
    {Entry(sh, b) : sh \in {"object", "text", "array"}, b \in BOOLEAN}
        \cup {Entry("number", FALSE)}
PlanValue(is_list, entries) == [is_list |-> is_list, entries |-> entries]
PlanValues ==
    {PlanValue(TRUE, q) : q \in SeqsUpTo(PlanEntries, MaxEntries)}
        \cup {PlanValue(FALSE, <<>>)}

\* all("sub_goal" in step for step in plan), entry by entry: `in` is key
\* membership on an object, substring search on a text, element membership
\* on an array, and a TypeError on a number; all() stops at the first False.
RECURSIVE AllHaveSubGoal(_)
AllHaveSubGoal(entries) ==
    IF entries = <<>> THEN "true"
    ELSE IF Head(entries).shape = "number" THEN "TypeError"
    ELSE IF ~Head(entries).has_sub_goal THEN "false"
    ELSE AllHaveSubGoal(Tail(entries))

\* Line 27: the outcome of the validation.
plan_check(plan) ==
    IF ~plan.is_list THEN "ValueError"
    ELSE IF plan.entries = <<>> THEN "ok"
    ELSE LET all == AllHaveSubGoal(plan.entries) IN
         IF all = "TypeError" THEN "TypeError"
         ELSE IF all = "false" THEN "ValueError"
         ELSE "ok"

PlanGenInit ==
    /\ fn_pc = "ready"
    /\ fn_in \in PlanValues
    /\ fn_out = [tag |-> "", executed |-> 0]
    /\ InvUnused
    /\ db_status = "planning"
    /\ db_mode = "plan"
    /\ db_plan = NoPlan
    /\ db_final_report = NoReport
    /\ db_research_content = {}
    /\ steps = <<>>
    /\ pc = "idle"
    /\ is_resume = FALSE
    /\ has_payload = FALSE
    /\ run_error = ""
    /\ context = NewContext("none")
    /\ loc = NoLoc
    /\ runs = 1
    /\ stop_signal = FALSE
    /\ elaborated = ""

\* _generate_and_save_plan after the planner call returned fn_in as "plan".
GenerateAndSavePlan ==
    /\ fn_pc = "ready"
    /\ LET check == plan_check(fn_in) IN
       IF check # "ok"
       THEN /\ fn_pc' = "done"
            /\ fn_out' = [fn_out EXCEPT !.tag = check]
            /\ UNCHANGED db_plan
       ELSE /\ fn_pc' = "loop"
            /\ fn_out' = [fn_out EXCEPT !.tag = "saved"]
            /\ db_plan' = [NoPlan EXCEPT !.kind = "list", !.nodes = fn_in.entries]
    /\ UNCHANGED <<fn_in, inv_vars, db_status, db_mode, db_final_report, db_research_content,
                   steps, run_vars, hist_vars>>

\* run_plan_mode, first iteration: the stop check, step["sub_goal"] (a
\* TypeError unless the entry is an object) and the running row of
\* _execute_plan_step.
PlanLoopFirst ==
    /\ fn_pc = "loop"
    /\ fn_pc' = "done"
    /\ IF fn_in.entries = <<>>
       THEN fn_out' = [fn_out EXCEPT !.tag = "return"] /\ UNCHANGED steps
       ELSE IF check_if_task_stopped
       THEN fn_out' = [fn_out EXCEPT !.tag = "Task stopped by user."] /\ UNCHANGED steps
       ELSE IF fn_in.entries[1].shape # "object"
       THEN fn_out' = [fn_out EXCEPT !.tag = "TypeError"] /\ UNCHANGED steps
       ELSE /\ fn_out' = [fn_out EXCEPT !.tag = "step", !.executed = 1]
            /\ steps' = Append(steps, StepRow(1, "Planning...", "", "running", 0))
    /\ UNCHANGED <<fn_in, inv_vars, db_status, db_mode, db_plan, db_final_report,
                   db_research_content, run_vars, hist_vars>>

PlanGenNext == GenerateAndSavePlan \/ PlanLoopFirst \/ StopTask

PlanGenSpec == PlanGenInit /\ [][PlanGenNext]_vars

(***************************************************************************)
(* Claims about the step ledger, the runner and the stop signal.           *)
(***************************************************************************)
\* C1: the step_index values of the task's rows are exactly 1..n in the
\* order the rows were inserted, whatever operations ran on the task.
C1_StepIndexDense ==
    \A i \in 1..Len(steps) : steps[i].step_index = i

\* C2: a write task that stored its outline and is resumed from the task
\* row alone enters resume_write_mode with the elaboration of its first
\* run and the stored plan.
C2_ResumeFromStorage ==
    (/\ pc = "resume_write"
     /\ is_resume /\ ~has_payload
     /\ db_plan.kind = "list"
     /\ elaborated \notin IncompleteElaborations)
        => (context.elaboration = elaborated /\ context.plan = db_plan)

\* The positions of a run inside a mode (the runner's tail excluded).
ModePcs ==
    {"plan_generate", "plan_step", "plan_exec", "explore_step", "explore_exec",
     "write_elaborate", "write_outline", "resume_write", "write_strategy",
     "write_leaf", "write_critique", "write_leaf_done",
     "debate_setup", "debate_rules", "debate_pro", "debate_con",
     "debate_evaluate", "debate_verdict"}

\* C3: once a stop was accepted for a planning or running task, no step of
\* the running mode puts the status back to one the stop check lets pass.
C3_StopSignalKept ==
    [][(stop_signal /\ check_if_task_stopped /\ pc \in ModePcs)
            => check_if_task_stopped']_vars

TerminalStatuses == {"completed", "failed", "awaiting_user_input"}

\* C4: every run the runner starts or resumes comes to an end, and once it
\* is over the status is completed, failed or awaiting_user_input.
C4_RunEndsTerminal ==
    /\ [](pc # "idle" => <>(pc = "idle"))
    /\ []((pc = "idle" /\ runs > 0) => db_status \in TerminalStatuses)

C4_Witness ==
    /\ pc = "idle"
    /\ is_resume
    /\ run_error = "llm"
    /\ db_status = "failed"

\* The runner finalizes a run that raised.
FailedFinalize == pc = "finalize" /\ run_error # "" /\ pc' = "idle"

\* C5 as stated: when the runner finalizes a failed run, the step rows are
\* unchanged and the progressive report stored before is still the report.
C5_ProgressReportKept ==
    [][(FailedFinalize /\ db_final_report.kind \in {"progressive", "assembled"})
            => (steps' = steps /\ db_final_report' = db_final_report)]_vars

\* C5, amended: no step ever removes a row or changes a completed row, and
\* finalizing a failed run leaves rows, plan and research content as they
\* are and stores the failure message as the report.
C5_FailureKeepsLedger ==
    [][/\ Len(steps') >= Len(steps)
       /\ \A i \in 1..Len(steps) : steps[i].status = "completed" => steps'[i] = steps[i]
       /\ FailedFinalize =>
            /\ steps' = steps
            /\ db_plan' = db_plan
            /\ db_research_content' = db_research_content
            /\ db_final_report' = ErrorReport(run_error)]_vars

C5_Witness ==
    /\ pc = "idle"
    /\ db_status = "failed"
    /\ run_error # ""
    /\ db_final_report = ErrorReport(run_error)
    /\ context.step_results # <<>>
    /\ \E i \in 1..Len(steps) : steps[i].status = "completed"

\* C6: a phase that finished leaves no row in status running: the running
\* row is the one that became completed, not a row beside it.
C6_RunningRowCompleted ==
    \A i \in 1..(Len(steps) - 1) :
        ~(/\ steps[i].status = "running"
          /\ steps[i + 1].status = "completed"
          /\ steps[i + 1].action = steps[i].action)

(***************************************************************************)
(* Claims about the Robust Invoker, checked under InvSpec.                 *)
(***************************************************************************)
\* How the specification classifies a gateway response.
YieldsJson(resp) ==
    resp.kind = "message" /\ ExtractJson(resp.content).tag = "return"
FailsRecoverably(resp) ==
    \/ resp.kind \in {"not_dict", "no_content"}
    \/ resp.kind = "message" /\ ExtractJson(resp.content).tag = "raise"
    \/ resp.kind = "raise" /\ resp.exc \in Recoverable
FailsFatally(resp) == ~YieldsJson(resp) /\ ~FailsRecoverably(resp)
IsTimeout(resp) == resp = GatewayRaises("TimeoutException")
Calls == Len(gateway_log)
LastResponse == gateway_log[Calls]

\* C7: one invocation makes at most max_retries gateway calls; every call
\* but the last one failed recoverably (so it returns at the first response
\* that yields JSON and calls again after a recoverable failure while
\* attempts remain); it raises the terminal error exactly when max_retries
\* calls were made and all of them failed recoverably.
C7_BoundedRetries ==
    /\ Calls <= max_retries
    /\ \A i \in 1..(Calls - 1) : FailsRecoverably(gateway_log[i])
    /\ (Calls > 0 /\ YieldsJson(LastResponse)) => inv_pc = "returned"
    /\ inv_pc = "returned" => (Calls > 0 /\ YieldsJson(LastResponse))
    /\ (Calls > 0 /\ FailsRecoverably(LastResponse) /\ Calls < max_retries)
          => (inv_pc = "loop" /\ attempt = Calls /\ ENABLED LlmAttempt)
    /\ inv_result = TerminalError
          <=> (/\ Calls = max_retries
               /\ max_retries > 0
               /\ \A i \in 1..Calls : FailsRecoverably(gateway_log[i]))

\* C7 witness: the default bound is exhausted by three recoverable failures.
C7_Witness ==
    /\ max_retries = DefaultMaxRetries
    /\ Calls = DefaultMaxRetries
    /\ inv_result = TerminalError

\* C8: an exception of the gateway call that is none of the three
\* recoverable kinds ends the invocation with that exception at once; no
\* further gateway call follows it.
C8_FatalAtOnce ==
    \A i \in 1..Calls :
        (gateway_log[i].kind = "raise" /\ gateway_log[i].exc \notin Recoverable)
            => /\ i = Calls
               /\ inv_pc = "raised"
               /\ inv_result = Raised(gateway_log[i].exc)

\* C8 witness: an HTTP error on the first of three attempts ended the call.
C8_Witness ==
    /\ max_retries = DefaultMaxRetries
    /\ Calls = 1
    /\ gateway_log[1] = GatewayRaises("HTTPStatusError")
    /\ inv_pc = "raised"

\* C9 as stated: a timeout on an attempt that is not the last one is
\* counted as a failed attempt and the gateway is called again.
C9_TimeoutRetried ==
    (Calls > 0 /\ IsTimeout(LastResponse) /\ Calls < max_retries)
        => (inv_pc = "loop" /\ attempt = Calls)

\* C9 amended: a gateway timeout ends the invocation with the timeout
\* exception on whatever attempt it happens; it is never counted as a failed
\* attempt and never followed by another call.
C9_TimeoutEndsInvocation ==
    \A i \in 1..Calls :
        IsTimeout(gateway_log[i])
            => /\ i = Calls
               /\ attempt = Calls - 1
               /\ inv_pc = "raised"
               /\ inv_result = Raised("TimeoutException")

\* C9 witness: a timeout on the second of three attempts, after a
\* recoverable failure, ended the invocation.
C9_Witness ==
    /\ max_retries = DefaultMaxRetries
    /\ Calls = 2
    /\ FailsRecoverably(gateway_log[1])
    /\ IsTimeout(gateway_log[2])
    /\ inv_pc = "raised"

\* C10: whenever the invoker returns normally, the value is a JSON object.
C10_ReturnsObject ==
    inv_pc = "returned" => inv_result.val.t = "obj"
(***************************************************************************)
(* Claims about the extraction, checked under ExtSpec.                     *)
(***************************************************************************)
\* C11: the extraction applied to a serialized JSON object, bare, in a
\* fenced block or between prose, returns a value equal to the object.
C11_ExtractRoundTrip ==
    fn_pc = "done" => fn_out = Returned(fn_in.o)

(***************************************************************************)
(* Claims about the dispatcher, checked under DispatchSpec.                *)
(***************************************************************************)
\* C12: a call whose action is not in the registry, or whose payload is no
\* object, fails with the error for that case, calls no tool function and
\* leaves the context as it was.
C12_RejectsUnknownAndNonObject ==
    (fn_pc = "done" /\ (fn_in.action \notin TOOL_DISPATCHER \/ ~fn_in.action_input.is_dict))
        => /\ fn_out.result.tag = "raise"
           /\ fn_out.result.error =
                IF fn_in.action \notin TOOL_DISPATCHER
                THEN "invalid tool" ELSE "invalid action_input"
           /\ fn_out.result.called = <<>>
           /\ fn_out.context = fn_in.context

\* C12 witness: a registered tool called with a payload that is no object.
C12_Witness ==
    /\ fn_pc = "done"
    /\ fn_in.action = "reasoning_step"
    /\ ~fn_in.action_input.is_dict
    /\ fn_out.result.error = "invalid action_input"

\* The parameters of a registered tool that have no value after filtering
\* and injection.
Unsupplied(action, action_input) ==
    {p \in ToolParams(action) : p \notin action_input.keys /\ p \notin Injected}

\* C13: a call of a registered tool with an object payload in which a
\* parameter has no value fails before the tool function is called, with
\* the error that names a missing parameter, and leaves the context as it
\* was; with every parameter supplied the tool function is called once.
C13_MissingParameterFailsFirst ==
    (fn_pc = "done" /\ fn_in.action \in TOOL_DISPATCHER /\ fn_in.action_input.is_dict)
        => IF Unsupplied(fn_in.action, fn_in.action_input) # {}
           THEN /\ fn_out.result.tag = "raise"
                /\ fn_out.result.error = "missing required parameter"
                /\ fn_out.result.param \in Unsupplied(fn_in.action, fn_in.action_input)
                /\ fn_out.result.called = <<>>
                /\ fn_out.context = fn_in.context
           ELSE /\ fn_out.result.tag = "invoked"
                /\ fn_out.result.called = <<fn_in.action>>

\* C13 witness: finish_task without its conclusion; extra keys are ignored.
C13_Witness ==
    /\ fn_pc = "done"
    /\ fn_in.action = "finish_task"
    /\ fn_in.action_input = Payload({"thought", "context"}, "")
    /\ fn_out.result.param = "conclusion"

(***************************************************************************)
(* Claims about explore mode, checked under Spec.                          *)
(***************************************************************************)
StuckLoopError == "Agent is stuck trying the same failing action repeatedly."

\* An iteration whose Act, tool, Reflect and Critique all returned: its row
\* is completed.
IterationCompleted ==
    /\ pc = "explore_exec"
    /\ pc' # pc
    /\ steps'[loc.row].status = "completed"

\* The action of this iteration and of the one before it both failed.
SecondFailure ==
    /\ context.action_history.n >= 1
    /\ ~context.action_history.last_success
    /\ ~context'.action_history.last_success

\* C14: an explore run starts at most 10 iterations; before an iteration
\* the stop signal aborts it; after an iteration whose calls returned, the
\* second failure in a row aborts with the stuck-loop error, even when the
\* critique reported finished, else a finished critique leaves the loop
\* without error, else the next iteration follows; after the 10th the
\* loop is left without error, and a run without error ends completed.
C14_ExploreLoopExits ==
    [][db_mode = "explore" =>
        /\ pc = "explore_exec" => loc.i \in 1..ExploreMaxSteps
        /\ (pc = "explore_step" /\ pc' # pc) =>
                IF loc.i > ExploreMaxSteps
                THEN pc' = "check_paused" /\ run_error' = ""
                ELSE IF check_if_task_stopped
                THEN pc' = "finalize" /\ run_error' = "Task stopped by user."
                ELSE pc' = "explore_exec" /\ loc'.i = loc.i
        /\ IterationCompleted =>
                IF SecondFailure
                THEN pc' = "finalize" /\ run_error' = StuckLoopError
                ELSE IF context'.is_finished
                THEN pc' = "check_paused" /\ run_error' = ""
                ELSE pc' = "explore_step" /\ loc'.i = loc.i + 1 /\ run_error' = ""
        /\ (pc = "finalize" /\ pc' # pc /\ run_error = "") => db_status' = "completed"
    ]_vars

\* C14 witness: the 10th iteration was the second failure in a row and was
\* reported finished; the run has left the loop with the stuck-loop error.
C14_Witness ==
    /\ db_mode = "explore"
    /\ pc = "finalize"
    /\ loc.i = ExploreMaxSteps
    /\ context.is_finished
    /\ run_error = StuckLoopError

\* C15: an observation that contains the sentinel is recorded with
\* success = false; when the observations of two iterations in a row
\* contain it, the run leaves the loop in the second one, with the
\* stuck-loop error once that iteration's Reflect and Critique returned,
\* and no further iteration is started.
C15_SentinelTwiceAborts ==
    [][(db_mode = "explore" /\ pc = "explore_exec"
            /\ context'.action_history.n = context.action_history.n + 1) =>
        /\ context'.step_outputs.last_sentinel => ~context'.action_history.last_success
        /\ (context.action_history.n >= 1 /\ context.step_outputs.last_sentinel
                /\ context'.step_outputs.last_sentinel) =>
            /\ ~context.action_history.last_success
            /\ pc' = "finalize"
            /\ steps'[loc.row].status = "completed" => run_error' = StuckLoopError
    ]_vars

\* C15 witness: the second iteration's observation held the sentinel like
\* the first one's, and the run has aborted with the stuck-loop error.
C15_Witness ==
    /\ db_mode = "explore"
    /\ pc = "finalize"
    /\ context.action_history.n = 2
    /\ context.step_outputs.last_sentinel
    /\ ~context.action_history.last_success
    /\ run_error = StuckLoopError
    /\ loc.i = 2

(***************************************************************************)
(* Claims about debate mode, checked under Spec.                           *)
(***************************************************************************)
\* |sum of pro scores - sum of con scores| over the rounds of a debate state.
ScoreDiff(st) == Abs(SumScores(st.rounds, "pro") - SumScores(st.rounds, "con"))

\* C16: a debate round is started only while fewer than max_rounds rounds
\* exist and the cumulative pro and con scores of the rounds so far differ
\* by less than score_diff_threshold: the loop stops after the first round
\* that reaches the threshold, and never holds more than max_rounds rounds.
C16_StopsAtThreshold ==
    [][(db_mode = "debate" /\ Len(db_plan'.rounds) > Len(db_plan.rounds)) =>
        /\ Len(db_plan'.rounds) <= db_plan.max_rounds
        /\ ScoreDiff(db_plan) < db_plan.threshold
    ]_vars

(***************************************************************************)
(* Claims about the Report Assembler, checked under AsmSpec.               *)
(***************************************************************************)
\* C17: two invocations on the same plan and research_content give the
\* same report; it holds one heading per node in document order, a child's
\* heading one level below its parent's (top-level nodes at level 2), and
\* right after the heading of each leaf, and nowhere else, the leaf's
\* current content, or the placeholder when research_content has no entry
\* for the leaf's id.
C17_AssemblerOutput ==
    fn_pc = "done" =>
        LET nodes == IF fn_in.plan.kind = "list" THEN fn_in.plan.nodes ELSE <<>>
            body == fn_out[1].body
            IsHeading(f) == f.t = "heading"
            headings == SelectSeq(body, IsHeading)
            Pos(k) == k + Cardinality({j \in 1..(k - 1) : nodes[j].leaf})
            LevelOf(id) == (CHOOSE h \in {headings[j] : j \in 1..Len(headings)} : h.id = id).i
        IN  /\ fn_out[1] = fn_out[2]
            /\ fn_out[1].kind = "assembled"
            /\ Len(headings) = Len(nodes)
            /\ Len(body) = Len(nodes) + Cardinality({j \in 1..Len(nodes) : nodes[j].leaf})
            /\ \A k \in 1..Len(nodes) :
                /\ body[Pos(k)].t = "heading"
                /\ body[Pos(k)].id = nodes[k].id
                /\ body[Pos(k)].i =
                        IF nodes[k].parent = "" THEN 2 ELSE LevelOf(nodes[k].parent) + 1
                /\ nodes[k].leaf =>
                        /\ body[Pos(k) + 1].id = nodes[k].id
                        /\ body[Pos(k) + 1].t =
                                IF \E c \in fn_in.rc : c.id = nodes[k].id
                                THEN "text" ELSE MissingContent

\* C17 witness: a three-level outline with content for one leaf, none for
\* the others, and an entry for an id the outline does not have.
C17_Witness ==
    /\ fn_pc = "done"
    /\ fn_in.plan = ListPlan(OutlineDeep)
    /\ fn_in.rc = {Content("1.1.1", "text"), Content("9", "text")}
    /\ Len(fn_out[1].body) = 8
    /\ fn_out[1].body[6] = Frag(MissingContent, "1.2", 0)

(***************************************************************************)
(* Claims about write and research mode, checked under Spec.               *)
(***************************************************************************)
\* The ids of the nodes of a plan that have no children.
LeafIds(plan) == {plan.nodes[k].id : k \in {j \in 1..Len(plan.nodes) : plan.nodes[j].leaf}}

\* C18: in every state of a write or research task every key of the
\* persisted research_content is the id of a leaf of the persisted plan.
C18_ContentOnlyForLeaves ==
    db_mode \in {"write", "research"} =>
        \A c \in db_research_content : c.id \in LeafIds(db_plan)

\* The positions of resume_write_mode: chapter strategies and leaves.
ResumePcs == {"resume_write", "write_strategy", "write_leaf", "write_critique", "write_leaf_done"}

\* C19: a fresh write or research run makes the elaboration and the outline
\* call and no chapter-strategy or leaf call; when both calls returned it
\* has saved their two steps and persisted the plan, and the runner then
\* writes no terminal status and no final report: they stay as they are
\* until a resume is issued.
C19_FreshWriteRunPauses ==
    [][(db_mode \in {"write", "research"} /\ ~is_resume /\ ~is_resume') =>
        /\ pc' \notin ResumePcs
        /\ (pc = "write_outline" /\ pc' = "check_paused") =>
                /\ Len(steps') = 2
                /\ db_plan' = context'.plan
                /\ db_status' = "awaiting_user_input"
        /\ (pc \in {"check_paused", "synthesize", "finalize"} /\ run_error = "" /\ pc' # pc) =>
                /\ pc' = "idle"
                /\ UNCHANGED <<db_status, db_final_report>>
    ]_vars

(***************************************************************************)
(* Claims about restart_task, checked under Spec.                          *)
(***************************************************************************)
\* A plan without the progress recorded in it (node statuses, debate
\* rounds, verdict).
PlanShape(plan) ==
    [plan EXCEPT !.nodes = [k \in DOMAIN plan.nodes |-> [plan.nodes[k] EXCEPT !.status = ""]],
                 !.rounds = <<>>, !.verdict = FALSE]

\* The task row still shows the report of the failure the task is resumed
\* from.
ResumedAfterFailure ==
    /\ is_resume
    /\ ~has_payload
    /\ pc # "idle"
    /\ db_final_report.kind = ErrorReport("").kind

\* C20: a run that resumes a failed task keeps the plan that was persisted
\* before the failure, and inserts no step under the index of a step that
\* is recorded as completed.
C20_ResumeContinues ==
    [][ResumedAfterFailure =>
        /\ db_plan.kind # "none" => PlanShape(db_plan') = PlanShape(db_plan)
        /\ Len(steps') > Len(steps) =>
                ~\E k \in 1..Len(steps) :
                    /\ steps[k].status = "completed"
                    /\ steps[k].step_index = steps'[Len(steps')].step_index
    ]_vars

(***************************************************************************)
(* Claims about the phases of the modes, checked under Spec.               *)
(***************************************************************************)
\* The positions at which a mode makes the model call of a phase: plan
\* generation, the write phases and the debate sub-steps.
PhasePcs ==
    {"plan_generate", "write_elaborate", "write_outline", "write_strategy",
     "write_leaf", "write_critique",
     "debate_setup", "debate_rules", "debate_pro", "debate_con",
     "debate_evaluate", "debate_verdict"}

\* C21: when the model call of a phase fails, the last row of the step
\* ledger is a row with status running that was inserted for that phase.
C21_RunningMarkerOnFailure ==
    [][(pc \in PhasePcs /\ run_error = "" /\ run_error' = "llm") =>
        /\ Len(steps') = Len(steps) + 1
        /\ steps'[Len(steps')].status = "running"
    ]_vars

(***************************************************************************)
(* Claims about the tools, checked under DispatchSpec.                     *)
(***************************************************************************)
FinishDispatched ==
    /\ fn_pc = "done"
    /\ fn_in.action = "finish_task"
    /\ fn_out.result.tag = "invoked"

\* C22 as stated: a dispatch of finish_task leaves the finished flag and
\* the task status alone and returns the conclusion, or the concatenation
\* of the step results when the conclusion given is empty.
C22_FinishReturnsConclusionOrResults ==
    FinishDispatched =>
        /\ fn_out.context.is_finished = fn_in.context.is_finished
        /\ db_status = "none"
        /\ fn_out.result.observation =
                IF fn_in.action_input.conclusion # ""
                THEN Text(fn_in.action_input.conclusion)
                ELSE fn_in.context.step_results

\* C22 amended: a dispatch of finish_task that calls the tool leaves the
\* finished flag and the task status alone; it returns the conclusion when
\* that is not empty, else the concatenation of the step results when
\* there are any, else a fixed notice.  Without a conclusion argument the
\* dispatch fails and the tool is not called.
C22_FinishTaskOutcome ==
    (fn_pc = "done" /\ fn_in.action = "finish_task" /\ fn_in.action_input.is_dict) =>
        IF "conclusion" \notin fn_in.action_input.keys
        THEN fn_out.result.tag = "raise" /\ fn_out.context = fn_in.context
        ELSE /\ fn_out.result.tag = "invoked"
             /\ fn_out.context.is_finished = fn_in.context.is_finished
             /\ fn_out.context = fn_in.context
             /\ db_status = "none"
             /\ fn_out.result.observation =
                    IF fn_in.action_input.conclusion # ""
                    THEN Text(fn_in.action_input.conclusion)
                    ELSE IF fn_in.context.step_results # <<>>
                    THEN fn_in.context.step_results
                    ELSE Text(NothingToReport)

\* C22 witness: finish_task with an empty conclusion and two step results.
C22_Witness ==
    /\ FinishDispatched
    /\ fn_in.action_input.conclusion = ""
    /\ Len(fn_in.context.step_results) = 2
    /\ fn_out.result.observation = fn_in.context.step_results
    /\ ~fn_out.context.is_finished

(***************************************************************************)
(* Claims about stop_task and the running job, checked under Spec.         *)
(***************************************************************************)
\* C23: once stop_task has marked a planning or running task failed, no
\* step of the job that is still running (mode or runner) changes the
\* persisted status: it stays failed until a resume is issued.
C23_StoppedStaysFailed ==
    [][(stop_signal /\ db_status = "failed" /\ pc # "idle") => db_status' = "failed"]_vars


(***************************************************************************)
(* Claims about the content jobs, checked under JobSpec.                   *)
(***************************************************************************)
JobStored(j) ==
    \E c \in db_research_content :
        c.id = fn_in.jobs[j].node_id /\ c.current = fn_out[j].refined

CheckpointPcs ==
    {"plan_step", "explore_step", "write_elaborate", "write_outline", "write_strategy",
     "write_leaf", "write_critique", "debate_rules", "debate_pro", "debate_con",
     "debate_evaluate", "debate_verdict"}

\* The step taken from such a position made (or committed to) the model
\* call of the step, sub-step or phase.
ModelCalled ==
    \/ run_error = "" /\ run_error' = "llm"
    \/ pc \in {"write_elaborate", "write_outline"} /\ pc' # pc
    \/ pc = "write_leaf" /\ pc' = "write_critique"
    \/ /\ pc = "write_critique" /\ loc.iter < MAX_REFINE_ITERATIONS
       /\ (pc' = "write_leaf_done" \/ loc'.iter = loc.iter + 1)
    \/ pc = "plan_step" /\ pc' = "plan_exec"
    \/ pc = "explore_step" /\ pc' = "explore_exec"
    \/ /\ pc \in {"write_strategy", "debate_rules", "debate_pro", "debate_con",
                  "debate_evaluate", "debate_verdict"}
       /\ Len(steps') > Len(steps)

\* C25: a step, round sub-step, verdict or write phase that is about to
\* begin while the stored status is neither planning nor running makes no
\* model call.
C25_StopCheckedBeforeCall ==
    [][(pc \in CheckpointPcs /\ check_if_task_stopped) => ~ModelCalled]_vars


(***************************************************************************)
(* Claims about the rounds of a debate across runs, checked under Spec.    *)
(***************************************************************************)
RoundPcs == {"debate_rules", "debate_pro", "debate_con", "debate_evaluate"}
\* The step is a round sub-step (or the verdict) whose model call was made:
\* _call_llm_and_save inserted its running row.
DebateCallMade(pcs) == pc \in pcs /\ Len(steps') > Len(steps)
RoundComplete(r) == r.stage = 4

\* C26: when the rules call of a new round or the final verdict call is
\* made, every round already in the debate state has its rules, both
\* arguments and its evaluation.
C26_RoundsCompleteBeforeNext ==
    [][DebateCallMade({"debate_rules", "debate_verdict"}) =>
        \A k \in 1..Len(loc.debate_state.rounds) :
            RoundComplete(loc.debate_state.rounds[k])]_vars

\* C27: once the stored debate state has a verdict, no step appends a round
\* to it and no round sub-step makes its model call.
C27_NoRoundAfterVerdict ==
    [][(db_plan.kind = "debate" /\ db_plan.verdict) =>
        /\ db_plan'.rounds = db_plan.rounds
        /\ ~DebateCallMade(RoundPcs)]_vars


(***************************************************************************)
(* Claims about the step ledger of a first run, checked under Spec.        *)
(***************************************************************************)
FirstRun == runs = 1 /\ ~is_resume

\* C28: during and after the first run of a freshly created task, whatever
\* its mode, the step_index values of the task's rows are 1..n in the order
\* the rows were inserted.
C28_FirstRunIndicesDense ==
    FirstRun => \A i \in 1..Len(steps) : steps[i].step_index = i
C28_Witness ==
    /\ FirstRun /\ pc = "idle"
    /\ db_mode = "debate" /\ db_status = "completed"
    /\ Len(steps) >= 6


(***************************************************************************)
(* Claims about the quality gate, checked under GateSpec.                  *)
(***************************************************************************)
GateDone == fn_pc = "done"

\* C29: the quality gate of a leaf makes one generation call, at most 10
\* critique calls and at most 10 refine calls.  When a critique passes, the
\* gate returns the draft that critique reviewed, and no critique before it
\* passed.  When 10 critiques were made and answered and none passed, then,
\* the 10th refine call having returned, the gate returns the draft of that
\* refine call and raises nothing.
C29_QualityGateBounded ==
    /\ fn_out.generations <= 1
    /\ fn_out.critiques <= MAX_REFINE_ITERATIONS
    /\ fn_out.refines <= MAX_REFINE_ITERATIONS
    /\ fn_out.passes <= 1
    /\ fn_pc # "generate" => fn_out.generations = 1
    /\ fn_out.passes = 1 =>
            /\ GateDone /\ fn_out.tag = "return"
            /\ fn_out.value = fn_out.reviewed
            /\ fn_out.value.n = fn_out.critiques - 1
            /\ fn_out.refines = fn_out.critiques - 1
    /\ (GateDone /\ fn_out.tag = "return" /\ fn_out.passes = 0) =>
            /\ fn_out.critiques = MAX_REFINE_ITERATIONS
            /\ fn_out.refines = MAX_REFINE_ITERATIONS
            /\ fn_out.value = fn_out.current_content
            /\ fn_out.value.n = MAX_REFINE_ITERATIONS
    /\ (GateDone /\ fn_out.critiques = MAX_REFINE_ITERATIONS /\ fn_out.passes = 0
            /\ fn_out.error # "llm") =>
            fn_out.tag = "return"
\* Ten critiques failed and the gate returned the tenth refined draft.
C29_Witness ==
    /\ GateDone /\ fn_out.tag = "return"
    /\ fn_out.passes = 0
    /\ fn_out.critiques = 10 /\ fn_out.refines = 10
    /\ fn_out.value.n = 10


(***************************************************************************)
(* Claims about the leaf loop of resume_write_mode, checked under Spec.    *)
(***************************************************************************)
\* The step builds the generation prompt of the leaf loop's current leaf
\* and makes the generation call.
LeafPromptBuilt == pc = "write_leaf" /\ (pc' = "write_critique" \/ run_error' = "llm")
LeafStored(plan, rc, k) ==
    /\ plan.nodes[k].status = "completed"
    /\ \E c \in rc : c.id = plan.nodes[k].id

\* C30: in a resumed write run the generation prompt of a leaf is built
\* when exactly the leaves before it in document order have been accepted
\* in this run, one after the other: each of them is stored in
\* research_content with node status completed, in the context and in the
\* task row, and the history given to the prompt is their accepted texts in
\* that order; the leaf itself has not been generated in this run.
C30_LeavesInDocumentOrder ==
    [][/\ (pc \in {"write_critique", "write_leaf_done"} /\ pc' = "write_leaf") =>
            loc'.leaf = loc.leaf + 1
       /\ LeafPromptBuilt =>
        LET tasks == writing_tasks(context.plan)
            k     == loc.leaf
        IN  /\ is_resume
            /\ k \in 1..Len(tasks)
            /\ \A j \in 1..(k - 1) : tasks[j] < tasks[k]
            /\ \A j \in 1..(k - 1) :
                    /\ LeafStored(context.plan, context.research_content, tasks[j])
                    /\ LeafStored(db_plan, db_research_content, tasks[j])
            /\ loc.history = [j \in 1..(k - 1) |->
                                Frag("content", context.plan.nodes[tasks[j]].id, 0)]
    ]_vars
\* The prompt of the second leaf of a plan with a chapter was built.
C30_Witness ==
    /\ pc = "write_critique" /\ is_resume
    /\ loc.leaf = 2
    /\ Len(loc.history) = 1
    /\ context.plan.nodes = [OutlineTree EXCEPT ![2].status = "completed", ![3].status = "writing"]


(***************************************************************************)
(* Claims about the node statuses a failed content generation leaves,      *)
(* checked under Spec.                                                     *)
(***************************************************************************)
\* C31: when no run of a write or research task is active, every node of
\* the stored plan has status pending or completed: a run that failed or
\* was stopped after it stored a node as writing has not left it so.
C31_NoNodeLeftWriting ==
    (pc = "idle" /\ db_mode \in {"write", "research"} /\ db_plan.kind = "list") =>
        \A k \in 1..Len(db_plan.nodes) : db_plan.nodes[k].status \in {"pending", "completed"}


(***************************************************************************)
(* Claims about the knowledge-source selection, checked under Spec.        *)
(***************************************************************************)
\* A run is started for a task that has run before (restart_task or
\* resume_write_task); `context` is still the context of the earlier run.
RunResumed == pc = "idle" /\ pc' # "idle" /\ is_resume'

\* C32: the context a resumed or restarted run is given has the
\* knowledge-source selection of the run before it, so a task started with
\* a retrieval source still has it.
C32_SelectionKeptOnResume ==
    [][RunResumed => context'.kb = context.kb]_vars


\* C33: in an explore run without a knowledge source every decision the
\* Act phase can yield is reasoning_step, and the action history of the run
\* has no failed retrieve_knowledge entry.
C33_NoRetrievalWithoutSource ==
    (db_mode = "explore" /\ ~has_retrieval_tool) =>
        /\ \A d \in ActDecisions : d.action = "reasoning_step"
        /\ ~context.action_history.retrieve_failed
\* Two iterations without a source; the last one's reasoning text held the
\* sentinel and counted as a failed action.
C33_Witness ==
    /\ db_mode = "explore" /\ ~has_retrieval_tool
    /\ context.action_history.n = 2
    /\ ~context.action_history.last_success
    /\ ~context.action_history.retrieve_failed


(***************************************************************************)
(* Claims about malformed gateway responses, checked under InvSpec.        *)
(***************************************************************************)
Malformed(resp) == resp.kind \in {"not_dict", "no_content", "non_text"}

\* C34: a gateway response that is no message object, has no content or
\* has content that is not text is never the invocation's result, and while
\* attempts remain it is counted as a failed attempt and followed by
\* another one.
C34_MalformedIsRecoverable ==
    \A i \in 1..Calls :
        Malformed(gateway_log[i]) =>
            /\ (i = Calls => inv_pc # "returned")
            /\ (i < max_retries => (i < Calls \/ (inv_pc = "loop" /\ attempt = Calls)))


(***************************************************************************)
(* Claims about plan validation, checked under PlanGenSpec.                *)
(***************************************************************************)
\* The produced plan is no list, or an entry of it has no sub_goal field.
InvalidPlan(plan) ==
    \/ ~plan.is_list
    \/ \E k \in 1..Len(plan.entries) :
            ~(plan.entries[k].shape = "object" /\ plan.entries[k].has_sub_goal)

\* C35: once plan generation has handled a produced plan that is no list or
\* has an entry without a sub_goal field, it has raised an error, no plan is
\* stored and no step row exists; a step row exists only when the plan was
\* stored before.
C35_InvalidPlanRejected ==
    /\ (fn_pc # "ready" /\ InvalidPlan(fn_in)) =>
            /\ fn_pc = "done"
            /\ fn_out.tag \in {"ValueError", "TypeError"}
            /\ db_plan = NoPlan
            /\ steps = <<>>
    /\ steps # <<>> => (db_plan.kind = "list" /\ db_plan.nodes = fn_in.entries)


(***************************************************************************)
(* Claims about the arguments the dispatcher passes, checked under         *)
(* DispatchSpec.                                                           *)
(***************************************************************************)
ToolInvoked == fn_pc = "done" /\ fn_out.result.tag = "invoked"

\* C36: when the dispatcher invokes a tool, the arguments it passes are the
\* supplied ones whose names the tool declares, with their supplied values,
\* and api_config and context where the tool declares them, with the values
\* of the Task Context even when the payload has these names; supplied
\* names the tool does not declare are not passed and cause no error.
C36_ArgumentsFilteredAndInjected ==
    /\ ToolInvoked =>
        LET declared == ToolParams(fn_in.action)
            kwargs   == fn_out.result.kwargs
        IN  /\ DOMAIN kwargs = (fn_in.action_input.keys \cap declared) \cup (Injected \cap declared)
            /\ \A k \in DOMAIN kwargs :
                    kwargs[k] = IF k \in Injected THEN "task_context" ELSE "model"
    /\ (/\ fn_pc = "done" /\ fn_in.action \in TOOL_DISPATCHER /\ fn_in.action_input.is_dict
        /\ ToolParams(fn_in.action) \subseteq fn_in.action_input.keys \cup Injected)
            => fn_out.result.tag = "invoked"
\* retrieve_knowledge was invoked on a payload that also had the names
\* context, api_config and top_k.
C36_Witness ==
    /\ ToolInvoked
    /\ fn_in.action = "retrieve_knowledge"
    /\ fn_in.action_input.keys = {"query", "top_k", "context", "api_config"}
    /\ fn_out.result.kwargs =
            [k \in {"query", "api_config", "context"} |->
                IF k = "query" THEN "model" ELSE "task_context"]


(***************************************************************************)
(* Claims about the verdict of a debate, checked under Spec.               *)
(***************************************************************************)
\* The rows _call_llm_and_save inserted for the verdict call: a running row
\* before each call, a completed row after each call that returned.
VerdictRows(status) ==
    {i \in 1..Len(steps) : steps[i].action = "Phase 3: Final Verdict" /\ steps[i].status = status}

Complexity(state) == <<state.personas, state.max_rounds, state.threshold>>

LeafAccepted == pc = "write_leaf_done" /\ pc' = "write_leaf"
AcceptedId == context.plan.nodes[writing_tasks(context.plan)[loc.leaf]].id
EntryOf(rc, id) == CHOOSE c \in rc : c.id = id

\* C39: right after write mode stores an accepted leaf, the leaf's
\* research_content entry, in the context and in the task row, has the
\* accepted content as current and a history list of exactly one entry.
C39_OneEntryHistorySeed ==
    [][LeafAccepted =>
        /\ \E c \in db_research_content' : c.id = AcceptedId
        /\ EntryOf(db_research_content', AcceptedId).current = "content"
        /\ EntryOf(context'.research_content, AcceptedId).current = "content"
        /\ Len(EntryOf(db_research_content', AcceptedId).history) = 1]_vars

AcceptedSoFar(id) ==
    \E r \in 1..Len(steps') :
        /\ steps'[r].action = "Final Content"
        /\ steps'[r].node = id
        /\ steps'[r].status = "completed"
FragsOf(report, id) == {report.body[r] : r \in {x \in 1..Len(report.body) : report.body[x].id = id /\ report.body[x].i = 0}}

\* C40: right after a leaf is accepted, the final_report of the task row
\* is the assembler's output over the plan and the research_content of the
\* task row; for every leaf of that plan it holds the accepted content if
\* the ledger has a final-content step of the leaf and the missing-content
\* placeholder otherwise.
C40_ProgressiveReport ==
    [][LeafAccepted =>
        /\ db_final_report' = assemble_final_report(db_plan', db_research_content')
        /\ \A k \in 1..Len(db_plan'.nodes) :
            LET n == db_plan'.nodes[k] IN
            n.leaf => FragsOf(db_final_report', n.id) =
                        IF AcceptedSoFar(n.id)
                        THEN {Frag("content", n.id, 0)}
                        ELSE {Frag(MissingContent, n.id, 0)}]_vars

\* The first of two leaves was accepted: the task row's report has its
\* content and the placeholder of the second leaf.
C40_Witness ==
    /\ pc = "write_leaf" /\ loc.leaf = 2
    /\ db_plan.kind = "list" /\ Len(db_plan.nodes) = 2
    /\ db_plan.nodes[1].status = "completed" /\ db_plan.nodes[2].status = "pending"
    /\ FragsOf(db_final_report, "1") = {Frag("content", "1", 0)}
    /\ FragsOf(db_final_report, "2") = {Frag(MissingContent, "2", 0)}

=============================================================================
